---- MODULE Spec2Model ----
(***************************************************************************)
(* harper: command line HAR analyser.                                      *)
(*                                                                         *)
(* The model covers the typed schema of src/har.rs and its derived serde   *)
(* decoder, the lenient decoder deserialize_empty_object, the diagnostic   *)
(* built by parse_har, the control flow of main/run in src/main.rs and the *)
(* time filter of src/ops/filter.rs.                                       *)
(*                                                                         *)
(* A JSON text is modelled by the tree it denotes (objects keep the order  *)
(* of their keys, as the streaming decoder sees them), by its lines, and   *)
(* by the position the reader has reached when an error is raised.         *)
(***************************************************************************)
EXTENDS Integers, Sequences, FiniteSets, TLC

VARIABLES
  pc,        \* where the program is
  args,      \* the parsed command line (Args)
  world,     \* what the program finds outside: its standard input or its file
  contents,  \* the text read
  parsed,    \* the record set
  failure,   \* the error run() returns
  stdout,    \* what was printed
  stderr,    \* what was printed to the error channel
  exitCode,  \* the ExitCode of main
  encoded,   \* the record set, serialized again
  calls,     \* the functions run() has called, in order
  domain_tree  \* the tree of the count-urls command

vars == <<pc, args, world, contents, parsed, failure, stdout, stderr, exitCode, encoded, calls,
          domain_tree>>

(***************************************************************************)
(* Bounds of the model.                                                    *)
(***************************************************************************)
\* largest number of keys of a Timing or Content object drawn as an input
MaxKeys == 3
\* largest number of entries of a document drawn as an input
MaxEntries == 2
\* largest number of lines of a text drawn as an input
MaxLines == 12
\* largest column an error is reported at
MaxColumn == 2
\* largest number of entries handed to the time filter
MaxFilterEntries == 3
\* largest number of entries of a document a whole run reads
MaxRunEntries == 1

\* largest number of entries of a record set given to count-urls, besides
\* the example lists
MaxUrlEntries == 2

\* largest number of entries of a record set given to search-for, besides
\* the example list
MaxSearchEntries == 2

(***************************************************************************)
(* JSON values.  Numbers keep only their lexical class (integer or         *)
(* floating point), which is all the decoder of har.rs looks at.           *)
(***************************************************************************)
JNull == [k |-> "null"]
JInt == [k |-> "int"]
JFloat == [k |-> "float"]
JBool == [k |-> "bool"]
JStr(s) == [k |-> "str", s |-> s]
JArr(a) == [k |-> "arr", a |-> a]
\* an object is the sequence of its members, in document order
JObj(m) == [k |-> "obj", m |-> m]
Member(key, val) == [key |-> key, val |-> val]

Has(m, key) == \E i \in 1..Len(m) : m[i].key = key
\* the value of the last member named key (serde_json::Map::insert overwrites)
Lookup(m, key) ==
  m[CHOOSE i \in 1..Len(m) : m[i].key = key /\ \A j \in (i+1)..Len(m) : m[j].key # key].val

\* A message is the sequence of its pieces; Tick stands for the backquote that
\* serde puts around a field name.
Tick == "'"

Ok(v) == [ok |-> TRUE, v |-> v]
Err(msg) == [ok |-> FALSE, msg |-> msg]

None == [k |-> "None"]
Some(v) == [k |-> "Some", v |-> v]

(***************************************************************************)
(* The schema of src/har.rs.  A field is its JSON name (rename_all =       *)
(* "camelCase", or an explicit rename), the type of one value, whether it  *)
(* is a Vec of them, and how absence is treated:                           *)
(*   "req"   a plain T,                                                    *)
(*   "opt"   an Option<T>,                                                 *)
(*   "with"  an Option<T> decoded with deserialize_empty_object.           *)
(***************************************************************************)
F(name, ty, card, mode) == [name |-> name, ty |-> ty, card |-> card, mode |-> mode]

ScalarTypes == {"String", "f64", "i64", "u16", "u32", "bool"}

Har == << F("log", "Log", "one", "req") >>

Log == << F("version", "String", "one", "req"),
          F("creator", "Creator", "one", "req"),
          F("browser", "Browser", "one", "opt"),
          F("pages", "Page", "vec", "opt"),
          F("entries", "Entry", "vec", "req"),
          F("comment", "String", "one", "opt") >>

Creator == << F("name", "String", "one", "req"),
              F("version", "String", "one", "req"),
              F("comment", "String", "one", "opt") >>

Browser == << F("name", "String", "one", "req"),
              F("version", "String", "one", "req"),
              F("comment", "String", "one", "opt") >>

Page == << F("startedDateTime", "String", "one", "req"),
           F("id", "String", "one", "req"),
           F("title", "String", "one", "req"),
           F("pageTimings", "PageTimings", "one", "req"),
           F("comment", "String", "one", "opt") >>

PageTimings == << F("onContentLoad", "f64", "one", "opt"),
                  F("onLoad", "f64", "one", "opt"),
                  F("comment", "String", "one", "opt") >>

Entry == << F("pageref", "String", "one", "opt"),
            F("startedDateTime", "String", "one", "req"),
            F("time", "f64", "one", "req"),
            F("request", "Request", "one", "req"),
            F("response", "Response", "one", "req"),
            F("cache", "Cache", "one", "req"),
            F("timings", "Timing", "one", "with"),
            F("serverIpAddress", "String", "one", "opt"),
            F("connection", "String", "one", "opt"),
            F("comment", "String", "one", "opt") >>

Request == << F("method", "String", "one", "req"),
              F("url", "String", "one", "req"),
              F("httpVersion", "String", "one", "req"),
              F("cookies", "Cookie", "vec", "req"),
              F("headers", "Header", "vec", "req"),
              F("queryString", "QueryString", "vec", "req"),
              F("postData", "PostData", "one", "opt"),
              F("headersSize", "i64", "one", "req"),
              F("bodySize", "i64", "one", "req"),
              F("comment", "String", "one", "opt") >>

Response == << F("status", "u16", "one", "req"),
               F("statusText", "String", "one", "req"),
               F("httpVersion", "String", "one", "req"),
               F("cookies", "Cookie", "vec", "req"),
               F("headers", "Header", "vec", "req"),
               F("redirectURL", "String", "one", "req"),
               F("content", "Content", "one", "with"),
               F("headersSize", "i64", "one", "req"),
               F("bodySize", "i64", "one", "req"),
               F("comment", "String", "one", "opt") >>

Cookie == << F("name", "String", "one", "req"),
             F("value", "String", "one", "req"),
             F("path", "String", "one", "opt"),
             F("domain", "String", "one", "opt"),
             F("expires", "String", "one", "opt"),
             F("httpOnly", "bool", "one", "opt"),
             F("secure", "bool", "one", "opt"),
             F("comment", "String", "one", "opt") >>

Header == << F("name", "String", "one", "req"),
             F("value", "String", "one", "req"),
             F("comment", "String", "one", "opt") >>

QueryString == << F("name", "String", "one", "req"),
                  F("value", "String", "one", "req"),
                  F("comment", "String", "one", "opt") >>

PostData == << F("mimeType", "String", "one", "req"),
               F("params", "Param", "vec", "opt"),
               F("text", "String", "one", "req"),
               F("comment", "String", "one", "opt") >>

Param == << F("name", "String", "one", "req"),
            F("value", "String", "one", "opt"),
            F("fileName", "String", "one", "opt"),
            F("contentType", "String", "one", "opt"),
            F("comment", "String", "one", "opt") >>

Content == << F("size", "i64", "one", "req"),
              F("compression", "i64", "one", "opt"),
              F("mimeType", "String", "one", "opt"),
              F("text", "String", "one", "opt"),
              F("encoding", "String", "one", "opt"),
              F("comment", "String", "one", "opt") >>

Cache == << F("beforeRequest", "CacheEntry", "one", "opt"),
            F("afterRequest", "CacheEntry", "one", "opt"),
            F("comment", "String", "one", "opt") >>

CacheEntry == << F("expires", "String", "one", "opt"),
                 F("lastAccess", "String", "one", "req"),
                 F("eTag", "String", "one", "req"),
                 F("hitCount", "u32", "one", "req"),
                 F("comment", "String", "one", "opt") >>

Timing == << F("blocked", "f64", "one", "opt"),
             F("dns", "f64", "one", "opt"),
             F("connect", "f64", "one", "opt"),
             F("send", "f64", "one", "req"),
             F("wait", "f64", "one", "req"),
             F("receive", "f64", "one", "req"),
             F("ssl", "f64", "one", "opt"),
             F("comment", "String", "one", "opt") >>

Fields(ty) ==
  CASE ty = "Har" -> Har
    [] ty = "Log" -> Log
    [] ty = "Creator" -> Creator
    [] ty = "Browser" -> Browser
    [] ty = "Page" -> Page
    [] ty = "PageTimings" -> PageTimings
    [] ty = "Entry" -> Entry
    [] ty = "Request" -> Request
    [] ty = "Response" -> Response
    [] ty = "Cookie" -> Cookie
    [] ty = "Header" -> Header
    [] ty = "QueryString" -> QueryString
    [] ty = "PostData" -> PostData
    [] ty = "Param" -> Param
    [] ty = "Content" -> Content
    [] ty = "Cache" -> Cache
    [] ty = "CacheEntry" -> CacheEntry
    [] ty = "Timing" -> Timing

(***************************************************************************)
(* The decoder derived by serde for the schema (#[derive(Deserialize)]).   *)
(* A decoded struct lists every declared field, in declaration order; an   *)
(* Option is None or Some(v); a Vec is the sequence of its elements.       *)
(***************************************************************************)
Struct(ty, f) == [k |-> "struct", ty |-> ty, f |-> f]
Vec(a) == [k |-> "vec", a |-> a]

\* how serde_json names the shape of a value in an "invalid type" message
Unexpected(v) ==
  CASE v.k = "null" -> "null"
    [] v.k = "int" -> "integer"
    [] v.k = "float" -> "floating point"
    [] v.k = "bool" -> "boolean"
    [] v.k = "str" -> "string"
    [] v.k = "arr" -> "sequence"
    [] v.k = "obj" -> "map"

InvalidType(v, expected) == Err(<<"invalid type: ", Unexpected(v), ", expected ", expected>>)

\* String, f64, i64, u16, u32, bool: an f64 accepts any number and holds it
\* as a float, the integer types accept integers only
DecodeScalar(ty, v) ==
  CASE ty = "String" -> IF v.k = "str" THEN Ok(v) ELSE InvalidType(v, "a string")
    [] ty = "f64" -> IF v.k \in {"int", "float"} THEN Ok(JFloat) ELSE InvalidType(v, "f64")
    [] ty = "bool" -> IF v.k = "bool" THEN Ok(v) ELSE InvalidType(v, "a boolean")
    [] OTHER -> IF v.k = "int" THEN Ok(v) ELSE InvalidType(v, ty)

\* the keys a Timing or a Content may hold, and one the schema does not know,
\* in the byte order in which serde_json::Map (a BTreeMap) iterates
KeyOrder == << "blocked", "comment", "compression", "connect", "dns", "encoding",
               "extra", "mimeType", "receive", "send", "size", "ssl", "text", "wait" >>

\* Value::deserialize: the members of an object are collected into a Map,
\* which keeps one value per key (the last) and iterates in key order
ToValue(v) ==
  IF v.k = "obj"
  THEN LET keys == SelectSeq(KeyOrder, LAMBDA key : Has(v.m, key))
       IN JObj([i \in 1..Len(keys) |-> Member(keys[i], Lookup(v.m, keys[i]))])
  ELSE v

RECURSIVE DecodeStruct(_, _)
RECURSIVE DecodeField(_, _)
RECURSIVE DecodeElements(_, _, _, _)
RECURSIVE VisitMap(_, _, _, _)
RECURSIVE MissingFields(_, _, _, _)

DecodeOne(ty, v) == IF ty \in ScalarTypes THEN DecodeScalar(ty, v) ELSE DecodeStruct(ty, v)

\* Vec<T>: r is the result of element i; the elements are kept in order and
\* the first that fails ends the decode
PushElementFirst(ty, a, i, acc, r) ==
  IF r.ok THEN DecodeElements(ty, a, i + 1, <<r.v>> \o acc) ELSE r

PushElement(ty, a, i, acc, r) ==
  IF r.ok THEN DecodeElements(ty, a, i + 1, Append(acc, r.v)) ELSE r

DecodeElements(ty, a, i, acc) ==
  IF i > Len(a) THEN Ok(Vec(acc))
  ELSE PushElement(ty, a, i, acc, DecodeOne(ty, a[i]))

DecodeCard(fld, v) ==
  IF fld.card = "vec"
  THEN IF v.k = "arr" THEN DecodeElements(fld.ty, v.a, 1, <<>>) ELSE InvalidType(v, "a sequence")
  ELSE DecodeOne(fld.ty, v)

\* .map(Some)
MapSome(r) == IF r.ok THEN Ok(Some(r.v)) ELSE r

\* .map(Some).map_err(|e| Error::custom(format!("Failed to deserialize: {}", e)))
MapSomeOrCustom(r) ==
  IF r.ok THEN Ok(Some(r.v)) ELSE Err(<<"Failed to deserialize: ">> \o r.msg)

\* deserialize_empty_object of an Option<T> field, from the Value read: an
\* empty object is None, every other value is decoded as a T
NoneOnAnyFailure(ty, value) ==
  IF DecodeStruct(ty, value).ok THEN MapSome(DecodeStruct(ty, value)) ELSE Ok(None)

NoneForSmallObject(ty, value) ==
  IF value.k = "obj" /\ Len(value.m) <= 1
  THEN Ok(None)
  ELSE MapSomeOrCustom(DecodeStruct(ty, value))

EmptyObjectOrValue(ty, value) ==
  IF value.k = "obj" /\ Len(value.m) = 0
  THEN Ok(None)
  ELSE MapSomeOrCustom(DecodeStruct(ty, value))

deserialize_empty_object(ty, v) == EmptyObjectOrValue(ty, ToValue(v))

DecodeField(fld, v) ==
  CASE fld.mode = "req" -> DecodeCard(fld, v)
    [] fld.mode = "opt" -> IF v.k = "null" THEN Ok(None) ELSE MapSome(DecodeCard(fld, v))
    [] fld.mode = "with" -> deserialize_empty_object(fld.ty, v)

\* the field of a struct with the given JSON name, if it declares one
NoField == [name |-> "", ty |-> "", card |-> "", mode |-> "none"]

FieldNamed(ty, key) ==
  IF \E j \in 1..Len(Fields(ty)) : Fields(ty)[j].name = key
  THEN Fields(ty)[CHOOSE j \in 1..Len(Fields(ty)) : Fields(ty)[j].name = key]
  ELSE NoField

\* visit_map: the members in document order; a key the struct does not declare
\* is skipped, a declared key met twice is an error, a value that does not
\* decode ends the visit
VisitValue(ty, m, i, acc, r) ==
  IF r.ok THEN VisitMap(ty, m, i + 1, Append(acc, Member(m[i].key, r.v))) ELSE r

VisitMember(ty, m, i, acc, fld) ==
  IF fld = NoField THEN VisitMap(ty, m, i + 1, acc)
  ELSE IF Has(acc, m[i].key) THEN Err(<<"duplicate field ", Tick, m[i].key, Tick>>)
  ELSE VisitValue(ty, m, i, acc, DecodeField(fld, m[i].val))

VisitMap(ty, m, i, acc) ==
  IF i > Len(m) THEN Ok(acc)
  ELSE VisitMember(ty, m, i, acc, FieldNamed(ty, m[i].key))

\* after the last member: the declared fields in declaration order; one that
\* was not met is None when it is a plain Option and an error otherwise (a
\* field with deserialize_with and no default has no value when absent)
MissingField(ty, seen, j, acc, fld) ==
  IF Has(seen, fld.name)
  THEN MissingFields(ty, seen, j + 1, Append(acc, Member(fld.name, Lookup(seen, fld.name))))
  ELSE IF fld.mode = "opt"
       THEN MissingFields(ty, seen, j + 1, Append(acc, Member(fld.name, None)))
       ELSE Err(<<"missing field ", Tick, fld.name, Tick>>)

MissingFields(ty, seen, j, acc) ==
  IF j > Len(Fields(ty)) THEN Ok(Struct(ty, acc))
  ELSE MissingField(ty, seen, j, acc, Fields(ty)[j])

\* the struct of the members visited
BuildStruct(ty, r) == IF r.ok THEN MissingFields(ty, r.v, 1, <<>>) ELSE r

\* (the inputs of the model hold no array where the schema has a struct)
DecodeStruct(ty, v) ==
  IF v.k # "obj" THEN InvalidType(v, "struct " \o ty)
  ELSE BuildStruct(ty, VisitMap(ty, v.m, 1, <<>>))

(***************************************************************************)
(* The encoder derived by serde (#[derive(Serialize)]): a struct is an     *)
(* object of all its fields in declaration order, None is null.            *)
(***************************************************************************)
RECURSIVE Serialize(_)
Serialize(d) ==
  CASE d.k = "struct" ->
         JObj([i \in 1..Len(d.f) |-> Member(d.f[i].key, Serialize(d.f[i].val))])
    [] d.k = "vec" -> JArr([i \in 1..Len(d.a) |-> Serialize(d.a[i])])
    [] d.k = "None" -> JNull
    [] d.k = "Some" -> Serialize(d.v)
    [] OTHER -> d

(***************************************************************************)
(* Documents.  A document is a complete, valid HAR log in which every      *)
(* struct of the schema occurs, changed in one place.                      *)
(***************************************************************************)
Range(q) == {q[i] : i \in 1..Len(q)}

NoValue == [k |-> "none"]

FullTiming ==
  JObj(<< Member("blocked", JFloat), Member("dns", JInt), Member("connect", JFloat),
          Member("send", JFloat), Member("wait", JInt), Member("receive", JFloat),
          Member("ssl", JNull), Member("comment", JStr("t")) >>)

FullContent ==
  JObj(<< Member("size", JInt), Member("compression", JInt), Member("mimeType", JStr("text/html")),
          Member("text", JStr("body")), Member("encoding", JStr("base64")),
          Member("comment", JStr("c")) >>)

CookieDoc ==
  JObj(<< Member("name", JStr("sid")), Member("value", JStr("1")), Member("path", JStr("/")),
          Member("domain", JStr("example.com")), Member("expires", JStr("never")),
          Member("httpOnly", JBool), Member("secure", JBool), Member("comment", JStr("c")) >>)

HeaderDoc ==
  JObj(<< Member("name", JStr("Accept")), Member("value", JStr("*/*")),
          Member("comment", JStr("c")) >>)

RequestDoc(url) ==
  JObj(<< Member("method", JStr("GET")), Member("url", JStr(url)),
          Member("httpVersion", JStr("HTTP/1.1")),
          Member("cookies", JArr(<<CookieDoc>>)),
          Member("headers", JArr(<<HeaderDoc>>)),
          Member("queryString", JArr(<<HeaderDoc>>)),
          Member("postData",
                 JObj(<< Member("mimeType", JStr("text/plain")),
                         Member("params", JArr(<< JObj(<< Member("name", JStr("p")),
                                                         Member("value", JStr("v")),
                                                         Member("fileName", JStr("f")),
                                                         Member("contentType", JStr("t")),
                                                         Member("comment", JStr("c")) >>) >>)),
                         Member("text", JStr("x")), Member("comment", JStr("c")) >>)),
          Member("headersSize", JInt), Member("bodySize", JInt),
          Member("comment", JStr("c")) >>)

\* content is the member list of the content key: one member, or none
ResponseDoc(content) ==
  JObj(<< Member("status", JInt), Member("statusText", JStr("OK")),
          Member("httpVersion", JStr("HTTP/1.1")),
          Member("cookies", JArr(<<CookieDoc>>)),
          Member("headers", JArr(<<HeaderDoc>>)),
          Member("redirectURL", JStr("")) >>
       \o content \o
       << Member("headersSize", JInt), Member("bodySize", JInt),
          Member("comment", JStr("c")) >>)

CacheDoc ==
  JObj(<< Member("beforeRequest",
                 JObj(<< Member("expires", JStr("never")), Member("lastAccess", JStr("now")),
                         Member("eTag", JStr("e")), Member("hitCount", JInt),
                         Member("comment", JStr("c")) >>)),
          Member("afterRequest", JNull), Member("comment", JStr("c")) >>)

\* timings and content are the member lists of those keys: one member, or none
EntryDoc(start, url, timings, content) ==
  JObj(<< Member("pageref", JStr("page_1")), Member("startedDateTime", JStr(start)),
          Member("time", JInt), Member("request", RequestDoc(url)),
          Member("response", ResponseDoc(content)), Member("cache", CacheDoc) >>
       \o timings \o
       << Member("serverIPAddress", JStr("203.0.113.5")), Member("connection", JStr("1")),
          Member("comment", JStr("c")) >>)

Document(entries) ==
  JObj(<< Member("log",
     JObj(<< Member("version", JStr("1.2")),
             Member("creator", JObj(<< Member("name", JStr("harper")),
                                       Member("version", JStr("1")),
                                       Member("comment", JStr("c")) >>)),
             Member("browser", JObj(<< Member("name", JStr("Firefox")),
                                       Member("version", JStr("1")),
                                       Member("comment", JStr("c")) >>)),
             Member("pages", JArr(<< JObj(<< Member("startedDateTime", JStr("2024-01-01T01:00:00Z")),
                                             Member("id", JStr("page_1")),
                                             Member("title", JStr("t")),
                                             Member("pageTimings",
                                                    JObj(<< Member("onContentLoad", JFloat),
                                                            Member("onLoad", JInt),
                                                            Member("comment", JStr("c")) >>)),
                                             Member("comment", JStr("c")) >>) >>)),
             Member("entries", JArr(entries)),
             Member("comment", JStr("c")) >>)) >>)

FullEntry(start) ==
  EntryDoc(start, "https://example.com/a",
           <<Member("timings", FullTiming)>>, <<Member("content", FullContent)>>)

\* the shape Firefox writes: empty objects for timings and content
FirefoxEntry(start) ==
  EntryDoc(start, "https://example.com/b",
           <<Member("timings", JObj(<<>>))>>, <<Member("content", JObj(<<>>))>>)

BaseDocument == Document(<<FullEntry("2024-01-01T01:00:00Z")>>)

\* a valid log of one entry that holds the required members only, around the
\* given values of timings and content
SmallDocument(timings, content) ==
  JObj(<< Member("log",
     JObj(<< Member("version", JStr("1.2")),
             Member("creator", JObj(<< Member("name", JStr("harper")),
                                       Member("version", JStr("1")) >>)),
             Member("entries", JArr(<<
               JObj(<< Member("startedDateTime", JStr("2024-01-01T01:00:00Z")),
                       Member("time", JFloat),
                       Member("request",
                              JObj(<< Member("method", JStr("GET")),
                                      Member("url", JStr("https://example.com/a")),
                                      Member("httpVersion", JStr("HTTP/1.1")),
                                      Member("cookies", JArr(<<>>)),
                                      Member("headers", JArr(<<>>)),
                                      Member("queryString", JArr(<<>>)),
                                      Member("headersSize", JInt),
                                      Member("bodySize", JInt) >>)),
                       Member("response",
                              JObj(<< Member("status", JInt),
                                      Member("statusText", JStr("OK")),
                                      Member("httpVersion", JStr("HTTP/1.1")),
                                      Member("cookies", JArr(<<>>)),
                                      Member("headers", JArr(<<>>)),
                                      Member("redirectURL", JStr("")),
                                      Member("content", content),
                                      Member("headersSize", JInt),
                                      Member("bodySize", JInt) >>)),
                       Member("cache", JObj(<<>>)),
                       Member("timings", timings) >>) >>)) >>)) >>)

\* the paths to the members of the objects of a value; a step is a key or
\* the (1-based) position of an array element
KeyStep(key) == [key |-> key, idx |-> 0]
IdxStep(i) == [key |-> "", idx |-> i]

RECURSIVE Paths(_)
Paths(v) ==
  CASE v.k = "obj" ->
         UNION { {<<KeyStep(v.m[i].key)>>}
                 \cup {<<KeyStep(v.m[i].key)>> \o p : p \in Paths(v.m[i].val)} : i \in 1..Len(v.m) }
    [] v.k = "arr" ->
         UNION { {<<IdxStep(i)>> \o p : p \in Paths(v.a[i])} : i \in 1..Len(v.a) }
    [] OTHER -> {}

\* the value without the member at the path
RECURSIVE DeleteAt(_, _)
DeleteAt(v, p) ==
  CASE v.k = "obj" ->
         IF Len(p) = 1
         THEN JObj(SelectSeq(v.m, LAMBDA mem : mem.key # p[1].key))
         ELSE JObj([i \in 1..Len(v.m) |->
                      IF v.m[i].key = p[1].key
                      THEN Member(v.m[i].key, DeleteAt(v.m[i].val, Tail(p)))
                      ELSE v.m[i]])
    [] v.k = "arr" ->
         JArr([i \in 1..Len(v.a) |-> IF i = p[1].idx THEN DeleteAt(v.a[i], Tail(p)) ELSE v.a[i]])
    [] OTHER -> v

\* the objects of at most MaxKeys members over the given keys (in that
\* order), each member a scalar
RawScalars == {JInt, JFloat, JStr("x"), JNull}

RawObjects(keys) ==
  { JObj(LET ks == SelectSeq(keys, LAMBDA key : key \in DOMAIN f)
         IN [i \in 1..Len(ks) |-> Member(ks[i], f[ks[i]])]) :
      f \in UNION { [S -> RawScalars] : S \in {T \in SUBSET Range(keys) : Cardinality(T) <= MaxKeys} } }

TimingKeys == <<"blocked", "dns", "connect", "send", "wait", "receive", "ssl", "comment", "extra">>
ContentKeys == <<"size", "compression", "mimeType", "text", "encoding", "comment", "extra">>

RawTimings == RawObjects(TimingKeys) \cup {JNull, JInt, JStr("x")}
RawContents == RawObjects(ContentKeys) \cup {JNull, JInt, JStr("x")}

StartTimes == {"2024-01-01T01:00:00Z", "2024-01-01T02:00:00Z", "2024-01-01T03:00:00+01:00"}

\* an entry of a document: complete, or with the empty objects Firefox writes
EntryVariants == [shape : {"full", "firefox"}, start : StartTimes]

EntryOf(e) == IF e.shape = "full" THEN FullEntry(e.start) ELSE FirefoxEntry(e.start)

RECURSIVE SeqsUpTo(_, _)
SeqsUpTo(S, n) ==
  IF n = 0 THEN {<<>>}
  ELSE LET shorter == SeqsUpTo(S, n - 1)
       IN shorter \cup {Append(q, x) : q \in {r \in shorter : Len(r) = n - 1}, x \in S}

\* A text is described by how its document is derived from the valid one:
\*   "entries"  the valid log with the given entries,
\*   "delete"   the valid document without the member at path,
\*   "timings"  a small valid document, raw as the value of the entry's timings,
\*   "content"  a small valid document, raw as the value of the response's content,
\*   "json"     the tree raw itself.
\* It has three lines and ends in a newline; the reader is on its second line.
Text(origin, entries, path, raw) ==
  [origin |-> origin, entries |-> entries, path |-> path, raw |-> raw,
   fault |-> "none", lines |-> <<1, 2, 3>>, nl |-> TRUE, at |-> [line |-> 2, column |-> 1]]

\* the tree the text denotes
TreeOf(input) ==
  CASE input.origin = "entries" -> Document([i \in 1..Len(input.entries) |-> EntryOf(input.entries[i])])
    [] input.origin = "delete" -> DeleteAt(BaseDocument, input.path)
    [] input.origin = "json" -> input.raw
    [] input.origin = "timings" -> SmallDocument(input.raw, FullContent)
    [] input.origin = "content" -> SmallDocument(FullTiming, input.raw)

DecodeInputs ==
       {Text("entries", es, <<>>, JNull) : es \in SeqsUpTo(EntryVariants, MaxEntries)}
  \cup {Text("delete", <<>>, p, JNull) : p \in Paths(BaseDocument)}
  \cup {Text("timings", <<>>, <<>>, raw) : raw \in RawTimings}
  \cup {Text("content", <<>>, <<>>, raw) : raw \in RawContents}

(***************************************************************************)
(* serde_json::from_str::<Har>.  The text is well formed, or it holds a    *)
(* syntax error, or it ends too early; a well formed text is decoded       *)
(* against the schema.  An error carries its class (Error::classify), its  *)
(* message and the position of the reader (Error::line, Error::column).    *)
(***************************************************************************)
SerdeError(category, msg, at) ==
  [ok |-> FALSE, category |-> category, msg |-> msg, line |-> at.line, column |-> at.column]

\* an error of the schema is a Data error at the reader's position
DataError(r, at) == IF r.ok THEN r ELSE SerdeError("Data", r.msg, at)

from_str(input) ==
  CASE input.fault = "syntax" -> SerdeError("Syntax", <<"expected value">>, input.at)
    [] input.fault = "eof" -> SerdeError("Eof", <<"EOF while parsing a value">>, input.at)
    [] OTHER -> DataError(DecodeStruct("Har", TreeOf(input)), input.at)

\* Display of a serde_json error: the message, then " at line L column C"
ErrorToString(e) == e.msg \o <<" at ", "line L column C">>

(***************************************************************************)
(* parse_har: the diagnostic built from a decode error.                    *)
(***************************************************************************)
\* usize::saturating_sub
saturating_sub(a, b) == IF a >= b THEN a - b ELSE 0

Min(a, b) == IF a <= b THEN a ELSE b

\* let line_index = line.saturating_sub(1)
LineIndex(line) == saturating_sub(line, 1)

\* let start = line_index.saturating_sub(5)
WindowStart(line) == saturating_sub(LineIndex(line), 5)

\* let end = (line_index + 5).min(lines.len())
WindowEndUnclamped(line, len) == LineIndex(line) + 5

WindowEnd(line, len) == Min(LineIndex(line) + 5, len)

\* lines.get(start..end).unwrap_or_default(): the lines of the 0-based
\* half-open range, or no line at all when the range is not inside the slice
ContextLines(lines, start, end) ==
  IF start <= end /\ end <= Len(lines)
  THEN [i \in 1..(end - start) |-> lines[start + i]]
  ELSE <<>>

\* let error_line_in_context = line_index.saturating_sub(start)
ErrorLineInContext(line) == saturating_sub(LineIndex(line), WindowStart(line))

SourceLine(text) == [kind |-> "source", text |-> text]
Pointer(spaces) == [kind |-> "pointer", spaces |-> spaces, label |-> "^-- Error occurred here"]

\* the loop over context_lines: each line, and the pointer after the line at
\* error_line_in_context (i is 0-based in the code, 1-based here)
RECURSIVE ContextStr(_, _, _, _)
ContextStr(context_lines, i, error_line_in_context, column) ==
  IF i > Len(context_lines) THEN <<>>
  ELSE <<SourceLine(context_lines[i])>>
       \o (IF i - 1 = error_line_in_context
           THEN <<Pointer(saturating_sub(column, 1))>>
           ELSE <<>>)
       \o ContextStr(context_lines, i + 1, error_line_in_context, column)

\* err_str.split(" at ").next()
BeforeAt(str) ==
  LET hits == {i \in 1..Len(str) : str[i] = " at "}
  IN IF hits = {} THEN str
     ELSE SubSeq(str, 1, (CHOOSE i \in hits : \A j \in hits : i <= j) - 1)

\* err_str.strip_prefix("missing field `").and_then(|s| s.split('`').next())
MissingFieldName(str) ==
  IF Len(str) >= 2 /\ str[1] = "missing field " /\ str[2] = Tick
  THEN LET rest == SubSeq(str, 3, Len(str))
           ticks == {i \in 1..Len(rest) : rest[i] = Tick}
       IN Some(IF ticks = {} THEN rest
               ELSE SubSeq(rest, 1, (CHOOSE i \in ticks : \A j \in ticks : i <= j) - 1))
  ELSE None

\* the Category::Data arm
DataMsg(err_str, field) ==
  IF field.k = "Some"
  THEN [class |-> "Missing required field", detail |-> field.v]
  ELSE [class |-> "Data validation error", detail |-> err_str]

\* match error_class
ErrorMsgOf(category, err_str) ==
  CASE category = "Syntax" -> [class |-> "JSON syntax error", detail |-> BeforeAt(err_str)]
    [] category = "Eof" -> [class |-> "Unexpected end of JSON input", detail |-> <<>>]
    [] category = "Data" -> DataMsg(err_str, MissingFieldName(err_str))
    [] OTHER -> [class |-> "JSON parsing error", detail |-> err_str]

ErrorMsg(e) == ErrorMsgOf(e.category, ErrorToString(e))

Diagnostic(e, lines) ==
  [ context |-> "Failed to parse HAR file",
    line |-> e.line,
    column |-> e.column,
    error_msg |-> ErrorMsg(e),
    context_str |-> ContextStr(ContextLines(lines, WindowStart(e.line), WindowEnd(e.line, Len(lines))),
                               1, ErrorLineInContext(e.line), e.column) ]

\* .map_err(..).context("Failed to parse HAR file")
MapErr(r, lines) == IF r.ok THEN r ELSE [ok |-> FALSE, error |-> Diagnostic(r, lines)]

\* Ok(Har), or the diagnostic wrapped in its context
parse_har(input) == MapErr(from_str(input), input.lines)

(***************************************************************************)
(* Decoding a document and encoding the result again.                      *)
(***************************************************************************)
InitDecode ==
  /\ pc = "input"
  /\ contents \in DecodeInputs
  /\ args = NoValue
  /\ world = NoValue
  /\ parsed = NoValue
  /\ failure = NoValue
  /\ encoded = NoValue
  /\ domain_tree = NoValue
  /\ stdout = <<>>
  /\ stderr = <<>>
  /\ exitCode = "running"
  /\ calls = <<>>

\* parse_har(&contents)
Decoded(r) ==
  /\ parsed' = IF r.ok THEN r.v ELSE NoValue
  /\ failure' = IF r.ok THEN NoValue ELSE r.error
  /\ pc' = IF r.ok THEN "decoded" ELSE "failed"

Decode ==
  /\ pc = "input"
  /\ Decoded(parse_har(contents))
  /\ UNCHANGED <<args, world, contents, stdout, stderr, exitCode, encoded, calls, domain_tree>>

\* serde_json::to_value(&har)
Encode ==
  /\ pc = "decoded"
  /\ encoded' = Serialize(parsed)
  /\ pc' = "encoded"
  /\ UNCHANGED <<args, world, contents, parsed, failure, stdout, stderr, exitCode, calls,
                 domain_tree>>

NextDecode == Decode \/ Encode

SpecDecode == InitDecode /\ [][NextDecode]_vars

(***************************************************************************)
(* Properties of the decoder (specification SpecDecode).                   *)
(***************************************************************************)
\* field key of a decoded struct, member key of an object
Field(d, key) == Lookup(d.f, key)
Get(v, key) == Lookup(v.m, key)

\* the first entry's timings (origin "timings") or its response's content
\* (origin "content"), as decoded
LenientField ==
  LET entry == Field(Field(parsed, "log"), "entries").a[1]
  IN IF contents.origin = "timings" THEN Field(entry, "timings")
     ELSE Field(Field(entry, "response"), "content")

IsNumber(v) == v.k \in {"int", "float"}

\* a mapping that is a valid Timing: send, wait and receive are numbers, the
\* other sub-fields it holds are of their type or null
ValidTiming(raw) ==
  /\ raw.k = "obj"
  /\ \A key \in {"send", "wait", "receive"} : Has(raw.m, key) /\ IsNumber(Get(raw, key))
  /\ \A key \in {"blocked", "dns", "connect", "ssl"} :
       Has(raw.m, key) => IsNumber(Get(raw, key)) \/ Get(raw, key).k = "null"
  /\ Has(raw.m, "comment") => Get(raw, "comment").k \in {"str", "null"}

\* a mapping that is a valid Content: size is an integer, the other
\* sub-fields it holds are of their type or null
ValidContent(raw) ==
  /\ raw.k = "obj"
  /\ Has(raw.m, "size") /\ Get(raw, "size").k = "int"
  /\ Has(raw.m, "compression") => Get(raw, "compression").k \in {"int", "null"}
  /\ \A key \in {"mimeType", "text", "encoding", "comment"} :
       Has(raw.m, key) => Get(raw, key).k \in {"str", "null"}

ValidLenient(origin, raw) ==
  IF origin = "timings" THEN ValidTiming(raw) ELSE ValidContent(raw)

LenientDecoded == pc \in {"decoded", "failed", "encoded"} /\ contents.origin \in {"timings", "content"}

\* C1: for timings and content, the raw value {} decodes to None, and a
\* non-empty mapping that is not a valid Timing/Content makes the whole decode
\* fail (it is never turned into None).
C1_EmptyIsNoneMalformedFails ==
  LenientDecoded =>
    /\ contents.raw = JObj(<<>>) => pc # "failed" /\ LenientField = None
    /\ (contents.raw.k = "obj" /\ Len(contents.raw.m) > 0
          /\ ~ValidLenient(contents.origin, contents.raw)) => pc = "failed"

\* a timings mapping whose send is a string has failed to decode
C1_Witness ==
  /\ pc = "failed"
  /\ contents.origin = "timings"
  /\ contents.raw = JObj(<<Member("send", JStr("x")), Member("wait", JInt), Member("receive", JInt)>>)

\* a mapping of exactly one member, which is a sub-field of the type holding
\* a value of its type
SingleValidSubField(origin, raw) ==
  /\ raw.k = "obj"
  /\ Len(raw.m) = 1
  /\ LET key == raw.m[1].key
         v == raw.m[1].val
     IN IF origin = "timings"
        THEN \/ key \in {"blocked", "dns", "connect", "send", "wait", "receive", "ssl"} /\ IsNumber(v)
             \/ key = "comment" /\ v.k = "str"
        ELSE \/ key \in {"size", "compression"} /\ v.k = "int"
             \/ key \in {"mimeType", "text", "encoding", "comment"} /\ v.k = "str"

\* C2 as stated: a Timing or Content mapping that holds any single valid
\* sub-field (and no other key) decodes to Some.
C2_Original ==
  (LenientDecoded /\ SingleValidSubField(contents.origin, contents.raw)) =>
    pc # "failed" /\ LenientField.k = "Some"

\* C2 amended: a mapping that holds a single valid sub-field decodes to Some
\* exactly when that sub-field is the only required one of its type (size of
\* Content); for every other choice the decode fails, and the error names the
\* first required sub-field that is absent (send for Timing, size for Content).
C2_SingleSubField ==
  (LenientDecoded /\ SingleValidSubField(contents.origin, contents.raw)) =>
    IF contents.origin = "content" /\ contents.raw.m[1].key = "size"
    THEN pc # "failed" /\ LenientField.k = "Some"
    ELSE /\ pc = "failed"
         /\ failure.error_msg.class = "Data validation error"
         /\ SubSeq(failure.error_msg.detail, 1, 5) =
              <<"Failed to deserialize: ", "missing field ", Tick,
                IF contents.origin = "timings"
                THEN (IF contents.raw.m[1].key = "send" THEN "wait" ELSE "send")
                ELSE "size",
                Tick>>

\* a content mapping holding only size has decoded to Some
C2_Witness ==
  /\ pc = "decoded"
  /\ contents.origin = "content"
  /\ contents.raw = JObj(<<Member("size", JInt)>>)
  /\ LenientField.k = "Some"

\* the path of the first entry's timings, and of its response's content
TimingsPath == <<KeyStep("log"), KeyStep("entries"), IdxStep(1), KeyStep("timings")>>
ContentPath == <<KeyStep("log"), KeyStep("entries"), IdxStep(1), KeyStep("response"),
                 KeyStep("content")>>

\* C3: an entry whose timings key is omitted (a response whose content key is
\* omitted) decodes successfully with that field None; omission is never a
\* decode error.
C3_OmittedKeyIsNone ==
  (pc # "input" /\ contents.origin = "delete" /\ contents.path \in {TimingsPath, ContentPath}) =>
    /\ pc # "failed"
    /\ LET entry == Field(Field(parsed, "log"), "entries").a[1]
       IN IF contents.path = TimingsPath THEN Field(entry, "timings") = None
          ELSE Field(Field(entry, "response"), "content") = None

\* the field of the schema a path leads to, from the struct ty
RECURSIVE FieldAt(_, _)
FieldAt(ty, p) ==
  LET fld == Fields(ty)[CHOOSE j \in 1..Len(Fields(ty)) : Fields(ty)[j].name = p[1].key]
  IN IF Len(p) = 1 THEN fld
     ELSE IF fld.card = "vec" THEN FieldAt(fld.ty, Tail(Tail(p)))
     ELSE FieldAt(fld.ty, Tail(p))

\* the path leads to a member the schema declares
RECURSIVE Declared(_, _)
Declared(ty, p) ==
  /\ ty \notin ScalarTypes
  /\ \E j \in 1..Len(Fields(ty)) :
       /\ Fields(ty)[j].name = p[1].key
       /\ \/ Len(p) = 1
          \/ IF Fields(ty)[j].card = "vec"
             THEN Declared(Fields(ty)[j].ty, Tail(Tail(p)))
             ELSE Declared(Fields(ty)[j].ty, Tail(p))

\* C4: for every required field, at any nesting level, decoding the document
\* from which that field was deleted fails with a missing-required-field
\* diagnostic that names the deleted field.
C4_DeletedRequiredFieldIsNamed ==
  (/\ pc # "input"
   /\ contents.origin = "delete"
   /\ Declared("Har", contents.path)
   /\ FieldAt("Har", contents.path).mode = "req") =>
    /\ pc = "failed"
    /\ failure.error_msg = [class |-> "Missing required field",
                            detail |-> <<contents.path[Len(contents.path)].key>>]

\* what identifies an entry of a document: its start time and request URL
EntryKey(v) == <<Get(v, "startedDateTime"), Get(Get(v, "request"), "url")>>
EntryKeys(tree) ==
  LET a == Get(Get(tree, "log"), "entries").a
  IN [i \in 1..Len(a) |-> EntryKey(a[i])]

\* C9: decoding a valid document and encoding the record set again yields
\* the same number of entries in the same order as the source.
C9_RoundTripKeepsEntries ==
  pc = "encoded" => EntryKeys(encoded) = EntryKeys(TreeOf(contents))

\* a document of two entries, the later one first, has been decoded and encoded
C9_Witness ==
  /\ pc = "encoded"
  /\ contents.origin = "entries"
  /\ Len(contents.entries) = 2
  /\ contents.entries[1].start = "2024-01-01T02:00:00Z"
  /\ contents.entries[2].start = "2024-01-01T01:00:00Z"
  /\ Len(EntryKeys(encoded)) = 2

(***************************************************************************)
(* Diagnostics (specification SpecDiag): texts that do not decode, of      *)
(* every length up to MaxLines, with the positions serde_json can report.  *)
(* serde_json counts a line for every newline before the reader, while     *)
(* str::lines does not count the empty piece after a final newline: the    *)
(* end of a text that ends in a newline is on line n + 1, column 0.        *)
(***************************************************************************)
\* a text of n lines (line i holds the text i) that fails with the given
\* class of error at the given position; a Data error is a missing `log`
Layout(class, n, nl, line, column) ==
  [origin |-> IF class = "data" THEN "delete" ELSE "entries",
   entries |-> <<>>,
   path |-> IF class = "data" THEN <<KeyStep("log")>> ELSE <<>>,
   raw |-> JNull,
   fault |-> IF class = "data" THEN "none" ELSE class,
   lines |-> [i \in 1..n |-> i], nl |-> nl,
   at |-> [line |-> line, column |-> column]]

\* the number of newlines of a text of n lines
Newlines(n, nl) == IF nl THEN n ELSE IF n = 0 THEN 0 ELSE n - 1

DiagInputs ==
       {Layout(class, n, nl, line, column) :
          class \in {"syntax", "data"}, n \in 1..MaxLines, nl \in BOOLEAN,
          line \in 1..MaxLines, column \in 0..MaxColumn}
  \cup {Layout("eof", n, nl, MaxLines + 1, column) :
          n \in 0..MaxLines, nl \in BOOLEAN, column \in 0..MaxColumn}

\* the position is one the reader can be at: an error inside the text is on
\* one of its lines, the end of the text is after its last newline
Reportable(input) ==
  LET n == Len(input.lines)
  IN /\ n = 0 => ~input.nl
     /\ input.fault # "eof" => input.at.line <= n
     /\ (input.fault # "eof" /\ input.at.column = 0) => input.at.line >= 2
     /\ input.fault = "eof" =>
          (input.nl \/ n = 0 <=> input.at.column = 0)

\* the end of a text is reported at the line after its last newline
AtEnd(input) ==
  IF input.fault = "eof"
  THEN [input EXCEPT !.at.line = Newlines(Len(input.lines), input.nl) + 1]
  ELSE input

InitRun(inputs) ==
  /\ pc = "input"
  /\ contents \in inputs
  /\ args = NoValue
  /\ world = NoValue
  /\ parsed = NoValue
  /\ failure = NoValue
  /\ encoded = NoValue
  /\ domain_tree = NoValue
  /\ stdout = <<>>
  /\ stderr = <<>>
  /\ exitCode = "running"
  /\ calls = <<>>

InitDiag == InitRun({AtEnd(input) : input \in {i \in DiagInputs : Reportable(AtEnd(i))}})

SpecDiag == InitDiag /\ [][Decode]_vars

\* every position a usize pair can hold, within the bounds: line 0, lines
\* past the end of the text
AnyPositions ==
  {Layout(class, n, TRUE, line, column) :
     class \in {"syntax", "data", "eof"}, n \in 0..MaxLines,
     line \in 0..(MaxLines + 7), column \in 0..MaxColumn}

InitDiagAny == InitRun(AnyPositions)

SpecDiagAny == InitDiagAny /\ [][Decode]_vars

\* the source lines of a context, and the places of its pointers
SourceTexts(context_str) ==
  LET src == SelectSeq(context_str, LAMBDA item : item.kind = "source")
  IN [i \in 1..Len(src) |-> src[i].text]

Pointers(context_str) == {i \in 1..Len(context_str) : context_str[i].kind = "pointer"}

Max(a, b) == IF a >= b THEN a ELSE b

\* C5: for a failure reported at line L of a document of N lines, 1 <= L <= N,
\* the context window is exactly the lines max(1, L-5) .. min(N, L+5), verbatim
\* and in order; the 5th line after the failure line is included when it exists.
C5_WindowIsFiveBeforeFiveAfter ==
  (pc = "failed" /\ failure.line >= 1 /\ failure.line <= Len(contents.lines)) =>
    SourceTexts(failure.context_str) =
      SubSeq(contents.lines, Max(1, failure.line - 5),
             Min(Len(contents.lines), failure.line + 5))

\* C6: every diagnostic holds exactly one indicator line, immediately after
\* the copy of the failure line, made of column - 1 spaces and the label; also
\* for an end of input reported past the last line and for column 0.
C6_OneIndicatorUnderFailureLine ==
  pc = "failed" =>
    /\ Cardinality(Pointers(failure.context_str)) = 1
    /\ \A i \in Pointers(failure.context_str) :
         /\ i > 1
         /\ failure.line \in 1..Len(contents.lines)
         /\ failure.context_str[i - 1] = SourceLine(contents.lines[failure.line])
         /\ failure.context_str[i].spaces = Max(failure.column - 1, 0)

\* C7: building the diagnostic reads no line outside the document, whatever
\* the reported line and the length of the document: line 0 is treated as the
\* first line, the end of the window is clamped to the last line, and a
\* window that starts past the end gives an empty context.
C7_WindowStaysInsideDocument ==
  pc = "failed" =>
    LET n == Len(contents.lines)
        first == Max(1, Max(failure.line, 1) - 5)
        src == SourceTexts(failure.context_str)
    IN /\ \A i \in 1..Len(src) : src[i] = contents.lines[first + i - 1] /\ first + i - 1 <= n
       /\ (first <= n /\ Max(failure.line, 1) + 4 >= n) => src = SubSeq(contents.lines, first, n)
       /\ (failure.line = 0 /\ n >= 1) =>
            /\ Len(failure.context_str) >= 2
            /\ failure.context_str[1] = SourceLine(contents.lines[1])
            /\ Pointers(failure.context_str) = {2}
       /\ first > n => failure.context_str = <<>>

\* a failure reported at line 0 of a non-empty document, and one reported far
\* past the end of a document, have been given their diagnostics
C7_Witness ==
  /\ pc = "failed"
  /\ \/ failure.line = 0 /\ Len(contents.lines) = 3 /\ Len(failure.context_str) = 4
     \/ failure.line = Len(contents.lines) + 7 /\ Len(contents.lines) = 2
          /\ failure.context_str = <<>>

(***************************************************************************)
(* The time filter of src/ops/filter.rs.  Times are instants counted in    *)
(* hours from 2024-01-01T00:00:00Z.                                        *)
(***************************************************************************)
\* the strings the model gives to DateTime::parse_from_rfc3339: the local
\* hour and the offset they spell, or nothing when they are not RFC 3339
Rfc3339Fields(str) ==
  CASE str = "2024-01-01T01:00:00Z" -> Some([hour |-> 1, offset |-> 0])
    [] str = "2024-01-01T02:00:00Z" -> Some([hour |-> 2, offset |-> 0])
    [] str = "2024-01-01T03:00:00Z" -> Some([hour |-> 3, offset |-> 0])
    [] str = "2024-01-01T03:00:00+01:00" -> Some([hour |-> 3, offset |-> 1])
    [] str = "2024-01-01T01:00:00-02:00" -> Some([hour |-> 1, offset |-> -2])
    [] OTHER -> None

\* Ok(instant) or Err: the instant is the local time less the offset
parse_from_rfc3339(str) ==
  LET fields == Rfc3339Fields(str)
  IN IF fields.k = "Some" THEN Ok(fields.v.hour - fields.v.offset) ELSE Err(<<"input is not RFC 3339">>)

\* run() hands the record set to the operations of src/ops, which read it as
\* a JSON tree: a struct is read as an object, a Vec as an array
IsObject(v) == v.k \in {"obj", "struct"}
IsArray(v) == v.k \in {"arr", "vec"}
Members(v) == IF v.k = "obj" THEN v.m ELSE v.f
WithMembers(v, m) == IF v.k = "obj" THEN [v EXCEPT !.m = m] ELSE [v EXCEPT !.f = m]
WithMember(v, key, val) ==
  WithMembers(v, [i \in 1..Len(Members(v)) |->
                    IF Members(v)[i].key = key THEN Member(key, val) ELSE Members(v)[i]])

\* the closure of entries.retain
RetainStrict(entry, time, after) ==
  /\ IsObject(entry)
  /\ Has(Members(entry), "startedDateTime")
  /\ Lookup(Members(entry), "startedDateTime").k = "str"
  /\ LET start_time == parse_from_rfc3339(Lookup(Members(entry), "startedDateTime").s)
     IN /\ start_time.ok
        /\ IF after THEN start_time.v > time ELSE start_time.v < time

Retain(entry, time, after) ==
  /\ IsObject(entry)
  /\ Has(Members(entry), "startedDateTime")
  /\ Lookup(Members(entry), "startedDateTime").k = "str"
  /\ LET start_time == parse_from_rfc3339(Lookup(Members(entry), "startedDateTime").s)
     IN /\ start_time.ok
        /\ IF after THEN start_time.v >= time ELSE start_time.v <= time

\* the value after filter_by_time(&mut value, time, after); a value without
\* log.entries, or whose entries is not an array, is left as it is
filter_by_time(value, time, after) ==
  IF ~(IsObject(value) /\ Has(Members(value), "log")) THEN value
  ELSE LET log == Lookup(Members(value), "log")
       IN IF ~(IsObject(log) /\ Has(Members(log), "entries")) THEN value
          ELSE LET entries == Lookup(Members(log), "entries")
               IN IF ~IsArray(entries) THEN value
                  ELSE WithMember(value, "log",
                         WithMember(log, "entries",
                           [entries EXCEPT !.a = SelectSeq(entries.a,
                                                  LAMBDA entry : Retain(entry, time, after))]))

(***************************************************************************)
(* main and run of src/main.rs.                                            *)
(***************************************************************************)
Commands == {"CountUrls", "ListDomains", "CountSchemes", "CountRequests", "SearchFor", "Output",
             "DNSSECAudit", "DNSLookup", "GetBlockLists", "RemoveBlockLists", "BlockList"}

\* the instants given to --before and --after
Bounds == {None, Some(2)}

\* file is "-" (standard input, which may be a terminal) or a path (which may
\* not be readable)
Worlds(texts) ==
  [file : {"-"}, terminal : BOOLEAN, readable : {TRUE}, text : texts]
  \cup [file : {"log.har"}, terminal : {FALSE}, readable : BOOLEAN, text : texts]

\* the texts a run reads: valid logs, and one text for each class of failure
RunTexts ==
       {Text("entries", es, <<>>, JNull) : es \in SeqsUpTo(EntryVariants, MaxRunEntries)}
  \cup {Layout(class, 3, TRUE, 2, 1) : class \in {"syntax", "data"}}
  \cup {Layout("eof", 3, TRUE, 4, 0)}

Init ==
  /\ pc = "start"
  /\ args \in [command : Commands, before : Bounds, after : Bounds]
  /\ world \in Worlds(RunTexts)
  /\ contents = NoValue
  /\ parsed = NoValue
  /\ failure = NoValue
  /\ encoded = NoValue
  /\ domain_tree = NoValue
  /\ stdout = <<>>
  /\ stderr = <<>>
  /\ exitCode = "running"
  /\ calls = <<>>

\* the entries an operation reads: value["log"]["entries"]
EntriesOf(value) == Lookup(Members(Lookup(Members(value), "log")), "entries").a

\* run() returns: Ok(()) or the error
Return(result) ==
  /\ pc' = "returned"
  /\ failure' = result

\* the two commands that run() serves before it reads any input; either may
\* fail (network, file system)
GetBlockLists ==
  /\ pc = "start"
  /\ args.command = "GetBlockLists"
  /\ calls' = Append(calls, "download_all_blocklists")
  /\ \E ok \in BOOLEAN : Return(IF ok THEN NoValue ELSE [context |-> "Failed to download blocklist"])
  /\ UNCHANGED <<args, world, contents, parsed, stdout, stderr, exitCode, encoded, domain_tree>>

RemoveBlockLists ==
  /\ pc = "start"
  /\ args.command = "RemoveBlockLists"
  /\ calls' = Append(calls, "remove_blocklists")
  /\ \E ok \in BOOLEAN : Return(IF ok THEN NoValue ELSE [context |-> "Failed to remove blocklists"])
  /\ UNCHANGED <<args, world, contents, parsed, stdout, stderr, exitCode, encoded, domain_tree>>

\* let contents = match args.file: standard input that is a terminal ends the
\* process with clap's usage error, a file that cannot be read ends run()
ReadInput ==
  /\ pc = "start"
  /\ args.command \notin {"GetBlockLists", "RemoveBlockLists"}
  /\ IF world.file = "-"
     THEN IF world.terminal
          THEN /\ pc' = "exited"
               /\ stderr' = Append(stderr, [label |-> "error",
                                            error |-> [context |-> "Missing required argument"]])
               /\ exitCode' = "USAGE"
               /\ UNCHANGED <<contents, failure, calls>>
          ELSE /\ pc' = "read"
               /\ contents' = world.text
               /\ UNCHANGED <<failure, stderr, exitCode, calls>>
     ELSE /\ calls' = Append(calls, "read_input")
          /\ IF world.readable
             THEN /\ pc' = "read"
                  /\ contents' = world.text
                  /\ UNCHANGED failure
             ELSE /\ Return([context |-> "Failed to read file"])
                  /\ UNCHANGED contents
          /\ UNCHANGED <<stderr, exitCode>>
  /\ UNCHANGED <<args, world, parsed, stdout, encoded, domain_tree>>

\* let mut parsed = parse_har(&contents)?
Try(r) ==
  IF r.ok
  THEN /\ parsed' = r.v
       /\ pc' = "parsed"
       /\ UNCHANGED failure
  ELSE /\ Return(r.error)
       /\ UNCHANGED parsed

ParseHar ==
  /\ pc = "read"
  /\ calls' = Append(calls, "parse_har")
  /\ Try(parse_har(contents))
  /\ UNCHANGED <<args, world, contents, stdout, stderr, exitCode, encoded, domain_tree>>

\* if let Some(dt) = args.before { filter::filter_by_time(&mut parsed, dt, false); }
FilterBefore ==
  /\ pc = "parsed"
  /\ pc' = "filtered_before"
  /\ IF args.before.k = "Some"
     THEN /\ parsed' = filter_by_time(parsed, args.before.v, FALSE)
          /\ calls' = Append(calls, "filter_by_time")
     ELSE UNCHANGED <<parsed, calls>>
  /\ UNCHANGED <<args, world, contents, failure, stdout, stderr, exitCode, encoded, domain_tree>>

\* if let Some(dt) = args.after { filter::filter_by_time(&mut parsed, dt, true); }
FilterAfter ==
  /\ pc = "filtered_before"
  /\ pc' = "filtered"
  /\ IF args.after.k = "Some"
     THEN /\ parsed' = filter_by_time(parsed, args.after.v, TRUE)
          /\ calls' = Append(calls, "filter_by_time")
     ELSE UNCHANGED <<parsed, calls>>
  /\ UNCHANGED <<args, world, contents, failure, stdout, stderr, exitCode, encoded, domain_tree>>

\* an arm of match args.command that reads the record set and prints; what is
\* printed is recorded by the operation and the number of entries it read
Operation(command, function, results) ==
  /\ pc = "filtered"
  /\ args.command = command
  /\ calls' = Append(calls, function)
  /\ \E result \in results :
       /\ Return(result)
       /\ stdout' = IF result = NoValue
                    THEN Append(stdout, [operation |-> command, entries |-> Len(EntriesOf(parsed))])
                    ELSE stdout
  /\ UNCHANGED <<args, world, contents, parsed, stderr, exitCode, encoded, domain_tree>>

CountUrls == Operation("CountUrls", "build_domain_tree", {NoValue})

ListDomains == Operation("ListDomains", "list_domains", {NoValue})

CountSchemes == Operation("CountSchemes", "get_counts", {NoValue})

\* println!("Found {} requests.", count)
CountRequests == Operation("CountRequests", "get_counts", {NoValue})

SearchFor == Operation("SearchFor", "search_for", {NoValue})

\* println!("{}", json::stringify_pretty(json::parse(&contents)?, 4))
Output == Operation("Output", "stringify_pretty", {NoValue})

DNSSECAudit == Operation("DNSSECAudit", "dnssec_audit", {NoValue, [context |-> "DNS query failed"]})

DNSLookup == Operation("DNSLookup", "dns_lookup", {NoValue, [context |-> "DNS query failed"]})

BlockList == Operation("BlockList", "check_blocklists", {NoValue, [context |-> "Failed to read blocklist"]})

\* main: an Err of run() is printed to the error channel and is a failure
AlwaysSuccess(result) == "SUCCESS"

ExitCodeOf(result) == IF result # NoValue THEN "FAILURE" ELSE "SUCCESS"

Main ==
  /\ pc = "returned"
  /\ pc' = "exited"
  /\ stderr' = IF failure # NoValue
               THEN Append(stderr, [label |-> "Error", error |-> failure])
               ELSE stderr
  /\ exitCode' = ExitCodeOf(failure)
  /\ UNCHANGED <<args, world, contents, parsed, failure, stdout, encoded, calls, domain_tree>>

Next ==
  \/ GetBlockLists
  \/ RemoveBlockLists
  \/ ReadInput
  \/ ParseHar
  \/ FilterBefore
  \/ FilterAfter
  \/ CountUrls
  \/ ListDomains
  \/ CountSchemes
  \/ CountRequests
  \/ SearchFor
  \/ Output
  \/ DNSSECAudit
  \/ DNSLookup
  \/ BlockList
  \/ Main

Spec == Init /\ [][Next]_vars

\* C8: when decoding fails the run stops at the decode step: no record set
\* is produced, no time filter and no operation is called or prints, the
\* diagnostic in its "Failed to parse HAR file" context is written to the
\* error channel and the exit code is a failure; every function that reads
\* the record set is called only after a successful decode.
RecordSetCalls == {"filter_by_time", "build_domain_tree", "list_domains", "get_counts",
                   "search_for", "stringify_pretty", "dnssec_audit", "dns_lookup",
                   "check_blocklists"}

DecodeFailed ==
  /\ contents # NoValue
  /\ pc \in {"returned", "exited"}
  /\ ~from_str(contents).ok

C8_FailedDecodeStopsRun ==
  /\ DecodeFailed =>
       /\ parsed = NoValue
       /\ stdout = <<>>
       /\ calls # <<>> /\ calls[Len(calls)] = "parse_har"
       /\ \A i \in 1..Len(calls) : calls[i] \notin RecordSetCalls
       /\ failure # NoValue /\ failure.context = "Failed to parse HAR file"
       /\ pc = "exited" =>
            /\ exitCode = "FAILURE"
            /\ stderr = <<[label |-> "Error", error |-> failure]>>
  /\ \A i \in 1..Len(calls) :
       calls[i] \in RecordSetCalls =>
         /\ parsed # NoValue
         /\ \E j \in 1..(i - 1) : calls[j] = "parse_har"
  /\ stdout # <<>> => parsed # NoValue

\* a search over a text that ends too early has exited
C8_Witness ==
  /\ pc = "exited"
  /\ DecodeFailed
  /\ args.command = "SearchFor"
  /\ contents.fault = "eof"
  /\ exitCode = "FAILURE"

(***************************************************************************)
(* The time filter alone (specification SpecFilter): run() from the record *)
(* set on, over JSON trees whose entries hold every kind of start time.    *)
(***************************************************************************)
FilterStrings == {"yesterday", "2024-01-01T01:00:00Z", "2024-01-01T02:00:00Z",
                  "2024-01-01T03:00:00+01:00", "2024-01-01T01:00:00-02:00"}

\* an entry that is not an object, one without a start time, one whose start
\* time is a number, and one for each string
FilterEntries ==
  {JNull, JObj(<<>>), JObj(<<Member("startedDateTime", JInt)>>)}
  \cup {JObj(<<Member("startedDateTime", JStr(str))>>) : str \in FilterStrings}

LogOf(entries) ==
  JObj(<<Member("log", JObj(<<Member("version", JStr("1.2")), Member("entries", entries)>>))>>)

FilterValues ==
  {LogOf(JArr(es)) : es \in SeqsUpTo(FilterEntries, MaxFilterEntries)}
  \cup {JNull, JObj(<<>>), JObj(<<Member("log", JNull)>>), JObj(<<Member("log", JObj(<<>>))>>),
        LogOf(JNull)}

FilterBounds == {None, Some(1), Some(2), Some(3)}

InitFilter ==
  /\ pc = "parsed"
  /\ args \in [command : {"CountRequests"}, before : FilterBounds, after : FilterBounds]
  /\ world = NoValue
  /\ contents \in {Text("json", <<>>, <<>>, value) : value \in FilterValues}
  /\ parsed = contents.raw
  /\ failure = NoValue
  /\ encoded = NoValue
  /\ domain_tree = NoValue
  /\ stdout = <<>>
  /\ stderr = <<>>
  /\ exitCode = "running"
  /\ calls = <<"parse_har">>

NextFilter == FilterBefore \/ FilterAfter

SpecFilter == InitFilter /\ [][NextFilter]_vars

\* the instant each RFC 3339 string of the model denotes, in hours UTC
UtcHour(str) ==
  CASE str = "2024-01-01T01:00:00Z" -> 1
    [] str = "2024-01-01T02:00:00Z" -> 2
    [] str = "2024-01-01T03:00:00Z" -> 3
    [] str = "2024-01-01T03:00:00+01:00" -> 2
    [] str = "2024-01-01T01:00:00-02:00" -> 3

Rfc3339Strings == {"2024-01-01T01:00:00Z", "2024-01-01T02:00:00Z", "2024-01-01T03:00:00Z",
                   "2024-01-01T03:00:00+01:00", "2024-01-01T01:00:00-02:00"}

\* the entry has a start time that is an RFC 3339 string within the bounds
InWindow(entry, before, after) ==
  /\ entry.k = "obj"
  /\ Has(entry.m, "startedDateTime")
  /\ Get(entry, "startedDateTime").k = "str"
  /\ Get(entry, "startedDateTime").s \in Rfc3339Strings
  /\ before.k = "Some" => UtcHour(Get(entry, "startedDateTime").s) <= before.v
  /\ after.k = "Some" => UtcHour(Get(entry, "startedDateTime").s) >= after.v

HasEntries(value) ==
  /\ value.k = "obj" /\ Has(value.m, "log")
  /\ Get(value, "log").k = "obj" /\ Has(Get(value, "log").m, "entries")
  /\ Get(Get(value, "log"), "entries").k = "arr"

\* the entries of orig that a filter with these bounds keeps, in their order
Kept(orig, before, after) ==
  IF before = None /\ after = None THEN orig
  ELSE SelectSeq(orig, LAMBDA entry : InWindow(entry, before, after))

\* C10: the time filter keeps exactly the entries whose start time parses as
\* RFC 3339 and lies within the bounds, both inclusive, drops the entries
\* whose start time is missing, not a string or unparseable, and keeps the
\* order; the before filter followed by the after filter keeps exactly the
\* entries that satisfy both.
C10_FilterKeepsWindowInOrder ==
  HasEntries(contents.raw) =>
    /\ pc = "filtered_before" =>
         EntriesOf(parsed) = Kept(EntriesOf(contents.raw), args.before, None)
    /\ pc = "filtered" =>
         EntriesOf(parsed) = Kept(EntriesOf(contents.raw), args.before, args.after)

\* both filters at the instant 2 have kept the one entry of three that
\* starts at that instant, written with an offset
C10_Witness ==
  /\ pc = "filtered"
  /\ args.before = Some(2) /\ args.after = Some(2)
  /\ HasEntries(contents.raw)
  /\ EntriesOf(contents.raw) =
       << JObj(<<Member("startedDateTime", JStr("yesterday"))>>),
          JObj(<<Member("startedDateTime", JStr("2024-01-01T03:00:00+01:00"))>>),
          JObj(<<Member("startedDateTime", JStr("2024-01-01T01:00:00Z"))>>) >>
  /\ EntriesOf(parsed) = <<JObj(<<Member("startedDateTime", JStr("2024-01-01T03:00:00+01:00"))>>)>>

(***************************************************************************)
(* Strings.  A String of the program is the sequence of its characters;    *)
(* every character of the model is ASCII, so a character is a byte.        *)
(***************************************************************************)
\* the characters of codes 32 .. 95 and 97 .. 126, in the order of their codes
Below96 ==
  <<" ", "!", "\"", "#", "$", "%", "&", "'", "(", ")", "*", "+", ",", "-", ".", "/", "0", "1",
    "2", "3", "4", "5", "6", "7", "8", "9", ":", ";", "<", "=", ">", "?", "@", "A", "B", "C",
    "D", "E", "F", "G", "H", "I", "J", "K", "L", "M", "N", "O", "P", "Q", "R", "S", "T", "U",
    "V", "W", "X", "Y", "Z", "[", "\\", "]", "^", "_">>

Above96 ==
  <<"a", "b", "c", "d", "e", "f", "g", "h", "i", "j", "k", "l", "m", "n", "o", "p", "q", "r",
    "s", "t", "u", "v", "w", "x", "y", "z", "{", "|", "}", "~">>

\* the byte of a character
Code(c) ==
  IF \E i \in 1..Len(Below96) : Below96[i] = c
  THEN 31 + (CHOOSE i \in 1..Len(Below96) : Below96[i] = c)
  ELSE 96 + (CHOOSE i \in 1..Len(Above96) : Above96[i] = c)

\* Ord for String: byte by byte, a proper prefix first
StrLess(s, t) ==
  LET diff == {i \in 1..Min(Len(s), Len(t)) : s[i] # t[i]}
  IN IF diff = {} THEN Len(s) < Len(t)
     ELSE Code(s[CHOOSE i \in diff : \A j \in diff : i <= j])
            < Code(t[CHOOSE i \in diff : \A j \in diff : i <= j])

\* str::contains(&String)
contains(text, pat) ==
  \E i \in 0..(Len(text) - Len(pat)) : SubSeq(text, i + 1, i + Len(pat)) = pat

\* the first position of the character c in s, or 0
Find(s, c) ==
  IF \E i \in 1..Len(s) : s[i] = c
  THEN CHOOSE i \in 1..Len(s) : s[i] = c /\ \A j \in 1..(i - 1) : s[j] # c
  ELSE 0

\* str::split(c)
RECURSIVE Split(_, _)
Split(s, c) ==
  IF Find(s, c) = 0 THEN <<s>>
  ELSE <<SubSeq(s, 1, Find(s, c) - 1)>> \o Split(SubSeq(s, Find(s, c) + 1, Len(s)), c)

\* [String]::join(sep)
RECURSIVE Join(_, _)
Join(parts, sep) ==
  IF parts = <<>> THEN <<>>
  ELSE IF Len(parts) = 1 THEN parts[1]
  ELSE parts[1] \o sep \o Join(Tail(parts), sep)

\* Iterator::rev
Rev(q) == [i \in 1..Len(q) |-> q[Len(q) + 1 - i]]

(***************************************************************************)
(* Request URLs and hosts: Url::parse of the url crate and the extract of  *)
(* the tldextract crate, on the URLs below.                                *)
(***************************************************************************)
\* https://a.b.example.com/x
UrlSubdomain ==
  <<"h", "t", "t", "p", "s", ":", "/", "/", "a", ".", "b", ".", "e", "x", "a", "m", "p", "l",
    "e", ".", "c", "o", "m", "/", "x">>

\* https://example.com/y
UrlDomain ==
  <<"h", "t", "t", "p", "s", ":", "/", "/", "e", "x", "a", "m", "p", "l", "e", ".", "c", "o",
    "m", "/", "y">>

\* https://example.co.uk/z
UrlCoUk ==
  <<"h", "t", "t", "p", "s", ":", "/", "/", "e", "x", "a", "m", "p", "l", "e", ".", "c", "o",
    ".", "u", "k", "/", "z">>

\* data:text/plain;base64,AA
UrlData ==
  <<"d", "a", "t", "a", ":", "t", "e", "x", "t", "/", "p", "l", "a", "i", "n", ";", "b", "a",
    "s", "e", "6", "4", ",", "A", "A">>

\* https://203.0.113.5/w
UrlIpv4 ==
  <<"h", "t", "t", "p", "s", ":", "/", "/", "2", "0", "3", ".", "0", ".", "1", "1", "3", ".",
    "5", "/", "w">>

\* https://[::1]/
UrlIpv6 == <<"h", "t", "t", "p", "s", ":", "/", "/", "[", ":", ":", "1", "]", "/">>

\* https://b.example.com/
UrlSibling ==
  <<"h", "t", "t", "p", "s", ":", "/", "/", "b", ".", "e", "x", "a", "m", "p", "l", "e", ".",
    "c", "o", "m", "/">>

\* https://localhost/
UrlNoSuffix ==
  <<"h", "t", "t", "p", "s", ":", "/", "/", "l", "o", "c", "a", "l", "h", "o", "s", "t", "/">>

\* https://co.uk/
UrlSuffixOnly == <<"h", "t", "t", "p", "s", ":", "/", "/", "c", "o", ".", "u", "k", "/">>

\* https://bad..example/
UrlEmptyLabel ==
  <<"h", "t", "t", "p", "s", ":", "/", "/", "b", "a", "d", ".", ".", "e", "x", "a", "m", "p",
    "l", "e", "/">>

\* not a url
UrlRelative == <<"n", "o", "t", " ", "a", " ", "u", "r", "l">>

\* https://
UrlEmptyHost == <<"h", "t", "t", "p", "s", ":", "/", "/">>

\* the request URLs of the entries of arbitrary record sets
Urls == {UrlSubdomain, UrlDomain, UrlCoUk, UrlData, UrlEmptyLabel, UrlRelative}

Digits == SubSeq(Below96, 17, 26)

IsDigits(s) == s # <<>> /\ \A i \in 1..Len(s) : \E d \in 1..10 : Digits[d] = s[i]

IsSchemeChar(c) ==
  \/ Code(c) \in 97..122
  \/ Code(c) \in 65..90
  \/ Code(c) \in 48..57
  \/ c \in {"+", "-", "."}

\* the scheme of a URL text: the characters before the first ":", when there
\* is one, the first is a letter and all are scheme characters; or nothing
SchemeEnd(s) ==
  IF /\ Find(s, ":") > 1
     /\ Code(s[1]) \in (97..122) \cup (65..90)
     /\ \A i \in 1..(Find(s, ":") - 1) : IsSchemeChar(s[i])
  THEN Find(s, ":") - 1
  ELSE 0

\* the authority of what follows "scheme:": the characters between the
\* slashes that open it and the next "/"
SkipSlashes(rest) ==
  IF \A i \in 1..Len(rest) : rest[i] = "/" THEN <<>>
  ELSE SubSeq(rest, CHOOSE i \in 1..Len(rest) : rest[i] # "/" /\ \A j \in 1..(i - 1) : rest[j] = "/",
              Len(rest))

Authority(rest) ==
  IF Find(SkipSlashes(rest), "/") = 0 THEN SkipSlashes(rest)
  ELSE SubSeq(SkipSlashes(rest), 1, Find(SkipSlashes(rest), "/") - 1)

Ipv4(addr) == [k |-> "Ipv4", addr |-> addr]
Ipv6(addr) == [k |-> "Ipv6", addr |-> addr]
Domain(name) == [k |-> "Domain", name |-> name]

\* every host taken as a domain name
HostAsDomain(authority) == Domain(authority)

\* Host::parse: an address in brackets, four numbers, or a domain name
HostOf(authority) ==
  IF authority[1] = "[" /\ authority[Len(authority)] = "]"
  THEN Ipv6(SubSeq(authority, 2, Len(authority) - 1))
  ELSE IF Len(Split(authority, ".")) = 4 /\ \A l \in Range(Split(authority, ".")) : IsDigits(l)
  THEN Ipv4(authority)
  ELSE Domain(authority)

\* the URL of a text with a scheme: Err for a host with a forbidden character
\* and for an empty host; only http and https URLs have a host here
ParseWithScheme(s) ==
  IF SubSeq(s, 1, SchemeEnd(s)) \in {<<"h", "t", "t", "p">>, <<"h", "t", "t", "p", "s">>}
  THEN IF Authority(SubSeq(s, SchemeEnd(s) + 2, Len(s))) = <<>> THEN Err("empty host")
       ELSE IF \E c \in Range(Authority(SubSeq(s, SchemeEnd(s) + 2, Len(s)))) : c \in {" ", "<", ">"}
       THEN Err("invalid domain character")
       ELSE Ok([scheme |-> SubSeq(s, 1, SchemeEnd(s)),
                host |-> Some(HostOf(Authority(SubSeq(s, SchemeEnd(s) + 2, Len(s)))))])
  ELSE Ok([scheme |-> SubSeq(s, 1, SchemeEnd(s)), host |-> None])

\* a text without a scheme taken as the host of an https URL
UrlParseAsHost(s) ==
  IF SchemeEnd(s) = 0
  THEN Ok([scheme |-> <<"h", "t", "t", "p", "s">>, host |-> Some(Domain(s))])
  ELSE ParseWithScheme(s)

\* Url::parse: Err for a text without a scheme (a relative URL without a base)
Url_parse(s) ==
  IF SchemeEnd(s) = 0 THEN Err("relative URL without a base") ELSE ParseWithScheme(s)

\* the public suffixes the extractor knows: com, uk and co.uk
PublicSuffixes == {<< <<"c", "o", "m">> >>, << <<"u", "k">> >>, << <<"c", "o">>, <<"u", "k">> >>}

TldResult(domain, subdomain, suffix) == [domain |-> domain, subdomain |-> subdomain, suffix |-> suffix]

\* the labels from position i on are the longest public suffix of the host
IsSuffixAt(labels, i) ==
  /\ SubSeq(labels, i, Len(labels)) \in PublicSuffixes
  /\ \A j \in 1..(i - 1) : SubSeq(labels, j, Len(labels)) \notin PublicSuffixes

\* the result for a host whose public suffix starts at label i (at
\* Len(labels) + 1 when it has none: its last label is then the domain)
ResultAt(labels, i) ==
  TldResult(IF i > 1 THEN Some(labels[i - 1]) ELSE None,
            IF i > 2 THEN Some(Join(SubSeq(labels, 1, i - 2), <<".">>)) ELSE None,
            IF i <= Len(labels) THEN Some(Join(SubSeq(labels, i, Len(labels)), <<".">>)) ELSE None)

\* the extractor in naive mode: the last label alone is the suffix
extractNaive(host) ==
  IF \E l \in Range(Split(host, ".")) : l = <<>> THEN Err("invalid host")
  ELSE Ok(ResultAt(Split(host, "."), Len(Split(host, "."))))

\* TldExtractor::extract with naive_mode(false): Err for a host with an empty
\* label, else the longest public suffix, the label before it and the rest
extract(host) ==
  IF \E l \in Range(Split(host, ".")) : l = <<>> THEN Err("invalid host")
  ELSE IF \E i \in 1..Len(Split(host, ".")) : IsSuffixAt(Split(host, "."), i)
  THEN Ok(ResultAt(Split(host, "."), CHOOSE i \in 1..Len(Split(host, ".")) : IsSuffixAt(Split(host, "."), i)))
  ELSE Ok(ResultAt(Split(host, "."), Len(Split(host, ".")) + 1))

(***************************************************************************)
(* The domain tree of the count-urls command: DomainNode,                  *)
(* build_domain_tree and print_tree, which run() calls.                    *)
(***************************************************************************)
\* a node: its count and its children, a map from component to node kept as
\* the sequence of its (name, node) pairs in the order the map iterates
DomainNode(count, children) == [count |-> count, children |-> children]

\* DomainNode::default()
EmptyNode == DomainNode(0, <<>>)

Child(name, node) == [name |-> name, node |-> node]

HasChild(node, name) == \E i \in 1..Len(node.children) : node.children[i].name = name

ChildIndex(node, name) == CHOOSE i \in 1..Len(node.children) : node.children[i].name = name

\* the present components of a decomposition, in order
Present(options) == [i \in 1..Len(SelectSeq(options, LAMBDA o : o.k = "Some")) |->
                       SelectSeq(options, LAMBDA o : o.k = "Some")[i].v]

\* the subdomain labels nearest to the root first, or one empty component
SubdomainPath(subdomain) ==
  IF subdomain.k = "Some" THEN Rev(Split(subdomain.v, ".")) ELSE << <<>> >>

\* the components of a decomposed host under the merge and the split policy
MergedPath(res) ==
  (IF res.domain.k = "Some" \/ res.suffix.k = "Some"
   THEN <<Join(Present(<<res.domain, res.suffix>>), <<".">>)>>
   ELSE <<>>)
  \o SubdomainPath(res.subdomain)

SplitPath(res) == Present(<<res.suffix, res.domain>>) \o SubdomainPath(res.subdomain)

OrUnknown(path) == IF path = <<>> THEN <<<<"u", "n", "k", "n", "o", "w", "n">>>> ELSE path

\* the path of a domain name: the decomposition, or invalid:<host>
ExtractedPath(host, r, merge_tld) ==
  IF ~r.ok THEN <<<<"i", "n", "v", "a", "l", "i", "d", ":">> \o host>>
  ELSE OrUnknown(IF merge_tld THEN MergedPath(r.v) ELSE SplitPath(r.v))

HostPath(host, merge_tld) ==
  IF host.k \in {"Ipv4", "Ipv6"} THEN <<<<"i", "p", ":">> \o host.addr>>
  ELSE ExtractedPath(host.name, extract(host.name), merge_tld)

\* the domain-path of a parsed URL, or nothing for a URL without a host
ParsedPath(url, merge_tld) ==
  IF url.scheme = <<"d", "a", "t", "a">> THEN Some(<<<<"d", "a", "t", "a", ":">>>>)
  ELSE IF url.host.k = "None" THEN None
  ELSE Some(HostPath(url.host.v, merge_tld))

\* the domain-path of a request URL, or nothing for an entry that is skipped
PathOfParsed(r, merge_tld) == IF r.ok THEN ParsedPath(r.v, merge_tld) ELSE None

DomainPath(url, merge_tld) == PathOfParsed(Url_parse(url), merge_tld)

\* the count set to one at a visit
VisitNew(node) == [node EXCEPT !.count = 1]

\* a visit of a node adds one to its count
Visit(node) == [node EXCEPT !.count = @ + 1]

InsertAt(q, pos, x) == SubSeq(q, 1, pos) \o <<x>> \o SubSeq(q, pos + 1, Len(q))

\* the walk that puts a fresh node in the place of a child it finds
RECURSIVE WalkOverwriting(_, _, _)
WalkOverwriting(node, path, slot) ==
  IF path = <<>> THEN node
  ELSE IF HasChild(node, Head(path))
  THEN [node EXCEPT !.children[ChildIndex(node, Head(path))].node =
                       WalkOverwriting(Visit(EmptyNode), Tail(path), slot)]
  ELSE [node EXCEPT !.children =
                       InsertAt(@, Min(slot, Len(@)),
                                Child(Head(path), WalkOverwriting(Visit(EmptyNode), Tail(path), slot)))]

\* one walk from the root: the child of each component is created if absent
\* and its count is incremented, at every level.  A map gives no order to its
\* keys: a new child takes the place slot (or the last) of the iteration order
RECURSIVE Walk(_, _, _)
Walk(node, path, slot) ==
  IF path = <<>> THEN node
  ELSE IF HasChild(node, Head(path))
  THEN [node EXCEPT !.children[ChildIndex(node, Head(path))].node =
                       Walk(Visit(@), Tail(path), slot)]
  ELSE [node EXCEPT !.children =
                       InsertAt(@, Min(slot, Len(@)),
                                Child(Head(path), Walk(Visit(EmptyNode), Tail(path), slot)))]

\* an entry whose URL has no domain-path is skipped
Fold(tree, path, slot) ==
  IF path.k = "Some" THEN Walk(tree, path.v, slot) ELSE tree

\* build_domain_tree(&parsed, &mut domain_tree, &tld_extractor, merge_tld),
\* over the request URLs of the entries in their order
RECURSIVE build_domain_tree(_, _, _, _)
build_domain_tree(urls, tree, merge_tld, slots) ==
  IF urls = <<>> THEN tree
  ELSE build_domain_tree(Tail(urls),
                         Fold(tree, DomainPath(Head(urls), merge_tld), Head(slots)),
                         merge_tld, Tail(slots))

\* the warnings of the entries that were skipped
Warnings(urls) ==
  [i \in 1..Len(SelectSeq(urls, LAMBDA u : DomainPath(u, TRUE) = None)) |->
     [label |-> "Warning", url |-> SelectSeq(urls, LAMBDA u : DomainPath(u, TRUE) = None)[i]]]

\* the keys of main.rs: |(name, _)| name.to_string() and
\* |(_, node)| Reverse(node.count)
AlphaKey(child) == [k |-> "String", s |-> child.name]

\* the count as the key, without Reverse
CountKey(child) == [k |-> "usize", n |-> child.node.count]

FrequencyKey(child) == [k |-> "Reverse", n |-> child.node.count]

KeyOf(sort, child) == IF sort = "Alpha" THEN AlphaKey(child) ELSE FrequencyKey(child)

\* Ord of the keys
KeyLess(a, b) ==
  CASE a.k = "String" -> StrLess(a.s, b.s)
    [] a.k = "Reverse" -> a.n > b.n
    [] a.k = "usize" -> a.n < b.n

\* sort_by_key, a stable sort: the place of the element at i
PlaceOf(children, sort, i) ==
  1 + Cardinality({j \in 1..Len(children) :
                     \/ KeyLess(KeyOf(sort, children[j]), KeyOf(sort, children[i]))
                     \/ /\ ~KeyLess(KeyOf(sort, children[i]), KeyOf(sort, children[j]))
                        /\ j < i})

sort_by_key(children, sort) ==
  [p \in 1..Len(children) |->
     children[CHOOSE i \in 1..Len(children) : PlaceOf(children, sort, i) = p]]

\* a number in decimal
RECURSIVE Decimal(_)
Decimal(n) == IF n < 10 THEN <<Digits[n + 1]>> ELSE Decimal(n \div 10) \o <<Digits[(n % 10) + 1]>>

Spaces(n) == [i \in 1..n |-> " "]

\* the line indented by two spaces for each level
TreeLineNarrow(depth, child) ==
  Spaces(2 * depth) \o child.name \o <<" ", "(">> \o Decimal(child.node.count) \o <<")">>

\* "<indent><name> (<count>)", the indent 4 spaces for each level
TreeLine(depth, child) ==
  Spaces(4 * depth) \o child.name \o <<" ", "(">> \o Decimal(child.node.count) \o <<")">>

\* print_tree: the children of the node sorted by the key, each followed by
\* its own subtree one level deeper
RECURSIVE PrintSorted(_, _, _)
PrintSorted(children, sort, depth) ==
  IF children = <<>> THEN <<>>
  ELSE <<TreeLine(depth, Head(children))>>
       \o PrintSorted(sort_by_key(Head(children).node.children, sort), sort, depth + 1)
       \o PrintSorted(Tail(children), sort, depth)

print_tree(node, sort) == PrintSorted(sort_by_key(node.children, sort), sort, 0)

(***************************************************************************)
(* The count-urls command alone (specification SpecCount): run() from the  *)
(* filtered record set on.                                                 *)
(***************************************************************************)
\* the record set whose entries have these request URLs
HarOf(urls) ==
  Struct("Har", <<Member("log", Struct("Log", <<Member("entries",
    Vec([i \in 1..Len(urls) |->
           Struct("Entry", <<Member("request",
             Struct("Request", <<Member("url", JStr(urls[i]))>>))>>)]))>>))>>)

\* entry.request.url of each entry
RequestUrls(har) ==
  [i \in 1..Len(Field(Field(har, "log"), "entries").a) |->
     Field(Field(Field(Field(har, "log"), "entries").a[i], "request"), "url").s]

\* the five URLs of the aggregation example, and six URLs that give three
\* siblings the counts 3, 1 and 2
FiveUrls == <<UrlSubdomain, UrlDomain, UrlCoUk, UrlData, UrlIpv4>>

SixUrls == <<UrlDomain, UrlCoUk, UrlIpv4, UrlDomain, UrlIpv4, UrlSubdomain>>

\* the other kinds of URL: an IPv6 host, a second subdomain of example.com, a
\* host that is a public suffix, an empty host, and a host without a suffix
EdgeUrls == <<UrlIpv6, UrlSibling, UrlSuffixOnly, UrlEmptyHost, UrlSubdomain, UrlNoSuffix>>

UrlLists == SeqsUpTo(Urls, MaxUrlEntries) \cup {FiveUrls, SixUrls, EdgeUrls}

InitCount ==
  /\ pc = "filtered"
  /\ args \in [command : {"CountUrls"}, merge_tld : BOOLEAN, sort : {"Alpha", "Frequency"}]
  /\ world = NoValue
  /\ contents = NoValue
  /\ parsed \in {HarOf(urls) : urls \in UrlLists}
  /\ failure = NoValue
  /\ encoded = NoValue
  /\ domain_tree = NoValue
  /\ stdout = <<>>
  /\ stderr = <<>>
  /\ exitCode = "running"
  /\ calls = <<"parse_har">>

\* let mut domain_tree = DomainNode::default(); build_domain_tree(..) with
\* the given policy
BuildWith(merge_tld) ==
  /\ pc = "filtered"
  /\ args.command = "CountUrls"
  /\ pc' = "built"
  /\ calls' = Append(calls, "build_domain_tree")
  /\ \E slots \in [1..Len(RequestUrls(parsed)) -> 0..2] :
       domain_tree' = build_domain_tree(RequestUrls(parsed), EmptyNode, merge_tld, slots)
  /\ stderr' = stderr \o Warnings(RequestUrls(parsed))
  /\ UNCHANGED <<args, world, contents, parsed, failure, stdout, exitCode, encoded>>

\* the tree built under the split policy whatever the flag
BuildDomainTreeSplit == BuildWith(FALSE)

\* build_domain_tree(&parsed, &mut domain_tree, &tld_extractor, count_args.merge_tld)
BuildDomainTree == BuildWith(args.merge_tld)

\* match count_args.sort { .. print_tree(&domain_tree, key) }; Ok(())
PrintTree ==
  /\ pc = "built"
  /\ calls' = Append(calls, "print_tree")
  /\ stdout' = stdout \o print_tree(domain_tree, args.sort)
  /\ Return(NoValue)
  /\ UNCHANGED <<args, world, contents, parsed, stderr, exitCode, encoded, domain_tree>>

NextCount == BuildDomainTree \/ PrintTree

SpecCount == InitCount /\ [][NextCount]_vars

(***************************************************************************)
(* Properties of the domain tree.                                          *)
(***************************************************************************)
\* the names of the nodes of the examples
NameCom == <<"c", "o", "m">>
NameCoUk == <<"c", "o", ".", "u", "k">>
NameExample == <<"e", "x", "a", "m", "p", "l", "e">>
NameA == <<"a">>
NameB == <<"b">>
NameData == <<"d", "a", "t", "a", ":">>
NameIpv4 == <<"i", "p", ":", "2", "0", "3", ".", "0", ".", "1", "1", "3", ".", "5">>
NameIpv6 == <<"i", "p", ":", ":", ":", "1">>
NameExampleCom == <<"e", "x", "a", "m", "p", "l", "e", ".", "c", "o", "m">>
NameExampleCoUk == <<"e", "x", "a", "m", "p", "l", "e", ".", "c", "o", ".", "u", "k">>
NameLocalhost == <<"l", "o", "c", "a", "l", "h", "o", "s", "t">>
NameInvalid == <<"i", "n", "v", "a", "l", "i", "d", ":", "b", "a", "d", ".", ".", "e", "x", "a", "m", "p", "l", "e">>
NameEmpty == <<>>

\* every node of the tree below the root, as its path from the root and its
\* count
RECURSIVE PathCounts(_, _)
PathCounts(node, prefix) ==
  UNION {{<<prefix \o <<node.children[i].name>>, node.children[i].node.count>>}
           \cup PathCounts(node.children[i].node, prefix \o <<node.children[i].name>>) :
         i \in 1..Len(node.children)}

NodePaths(node) == {node2[1] : node2 \in PathCounts(node, <<>>)}

\* the count of the node at a path, 0 when the tree has no such node
CountAt(node, path) ==
  IF \E n \in PathCounts(node, <<>>) : n[1] = path
  THEN (CHOOSE n \in PathCounts(node, <<>>) : n[1] = path)[2]
  ELSE 0

TopLevel(node) == {node.children[i].name : i \in 1..Len(node.children)}

Built == pc \in {"built", "returned"}

\* C11 as stated: the five URLs under the split policy give the top-level
\* children com, co.uk, data: and ip:203.0.113.5, every node of the chain
\* com -> example -> b -> a has count 1, and co.uk -> example has count 1.
C11_ChainCountsAreOne ==
  (Built /\ RequestUrls(parsed) = FiveUrls /\ ~args.merge_tld) =>
    /\ TopLevel(domain_tree) = {NameCom, NameCoUk, NameData, NameIpv4}
    /\ CountAt(domain_tree, <<NameCom>>) = 1
    /\ CountAt(domain_tree, <<NameCom, NameExample>>) = 1
    /\ CountAt(domain_tree, <<NameCom, NameExample, NameB>>) = 1
    /\ CountAt(domain_tree, <<NameCom, NameExample, NameB, NameA>>) = 1
    /\ CountAt(domain_tree, <<NameCoUk, NameExample>>) = 1

\* C11 amended: the five URLs under the split policy give the top-level
\* children com, co.uk, data: and ip:203.0.113.5; com and com -> example
\* have count 2, because https://example.com/y walks through them as well
\* and ends in the empty component below example; b and a below them have
\* count 1; co.uk and co.uk -> example have count 1.
C11_FiveUrlsSplitTree ==
  (Built /\ RequestUrls(parsed) = FiveUrls /\ ~args.merge_tld) =>
    PathCounts(domain_tree, <<>>) =
      { <<<<NameCom>>, 2>>,
        <<<<NameCom, NameExample>>, 2>>,
        <<<<NameCom, NameExample, NameEmpty>>, 1>>,
        <<<<NameCom, NameExample, NameB>>, 1>>,
        <<<<NameCom, NameExample, NameB, NameA>>, 1>>,
        <<<<NameCoUk>>, 1>>,
        <<<<NameCoUk, NameExample>>, 1>>,
        <<<<NameCoUk, NameExample, NameEmpty>>, 1>>,
        <<<<NameData>>, 1>>,
        <<<<NameIpv4>>, 1>> }

\* the tree of the five URLs under the split policy has been built and
\* printed
C11_Witness ==
  /\ pc = "returned"
  /\ RequestUrls(parsed) = FiveUrls
  /\ ~args.merge_tld
  /\ Len(stdout) = 10
  /\ CountAt(domain_tree, <<NameCom, NameExample, NameB, NameA>>) = 1

\* the domain-path each URL of the model is to have, written out by hand
ExamplePath(url, merge_tld) ==
  CASE url = UrlSubdomain ->
         Some(IF merge_tld THEN <<NameExampleCom, NameB, NameA>>
              ELSE <<NameCom, NameExample, NameB, NameA>>)
    [] url = UrlSibling ->
         Some(IF merge_tld THEN <<NameExampleCom, NameB>> ELSE <<NameCom, NameExample, NameB>>)
    [] url = UrlDomain ->
         Some(IF merge_tld THEN <<NameExampleCom, NameEmpty>>
              ELSE <<NameCom, NameExample, NameEmpty>>)
    [] url = UrlCoUk ->
         Some(IF merge_tld THEN <<NameExampleCoUk, NameEmpty>>
              ELSE <<NameCoUk, NameExample, NameEmpty>>)
    [] url = UrlNoSuffix -> Some(<<NameLocalhost, NameEmpty>>)
    [] url = UrlSuffixOnly -> Some(<<NameCoUk, NameEmpty>>)
    [] url = UrlData -> Some(<<NameData>>)
    [] url = UrlIpv4 -> Some(<<NameIpv4>>)
    [] url = UrlIpv6 -> Some(<<NameIpv6>>)
    [] url = UrlEmptyLabel -> Some(<<NameInvalid>>)
    [] url \in {UrlRelative, UrlEmptyHost} -> None

Prefixes(path) == {SubSeq(path, 1, i) : i \in 1..Len(path)}

\* the paths of the nodes that the walks of these URLs create
ExampleNodes(urls, merge_tld) ==
  UNION {Prefixes(ExamplePath(urls[i], merge_tld).v) :
         i \in {j \in 1..Len(urls) : ExamplePath(urls[j], merge_tld) # None}}

\* C12: under the merge policy the path of a host is the one component
\* <domain>.<suffix> (only the one that is present when the other is missing,
\* without a dot), then the subdomain labels nearest to the root first, or one
\* empty component when there is no subdomain; the five URLs give the
\* top-level node example.com with count 2 and example.co.uk with count 1.
C12_MergedPath ==
  (Built /\ args.merge_tld) =>
    /\ NodePaths(domain_tree) = ExampleNodes(RequestUrls(parsed), TRUE)
    /\ \A name \in TopLevel(domain_tree) :
         name # <<>> /\ name[1] # "." /\ name[Len(name)] # "."
    /\ RequestUrls(parsed) = FiveUrls =>
         /\ TopLevel(domain_tree) = {NameExampleCom, NameExampleCoUk, NameData, NameIpv4}
         /\ CountAt(domain_tree, <<NameExampleCom>>) = 2
         /\ CountAt(domain_tree, <<NameExampleCoUk>>) = 1

\* under the merge policy a host with two subdomain labels, one with one
\* label, one that is only a public suffix have been folded into the tree
C12_Witness ==
  /\ pc = "built"
  /\ args.merge_tld
  /\ RequestUrls(parsed) = EdgeUrls
  /\ CountAt(domain_tree, <<NameExampleCom, NameB>>) = 2
  /\ CountAt(domain_tree, <<NameExampleCom, NameB, NameA>>) = 1
  /\ CountAt(domain_tree, <<NameCoUk, NameEmpty>>) = 1

Occurrences(urls, url) == Cardinality({i \in 1..Len(urls) : urls[i] = url})

StartsWith(s, prefix) == Len(s) >= Len(prefix) /\ SubSeq(s, 1, Len(prefix)) = prefix

\* C13: under both policies every URL of the data scheme is counted at the
\* one top-level node data:, and every URL whose host is an IPv4 or IPv6
\* address at the one top-level node ip:<address>; these nodes have no
\* children, and none of these URLs is left out of the tree.
C13_DataAndIpAreOneComponent ==
  Built =>
    /\ CountAt(domain_tree, <<NameData>>) = Occurrences(RequestUrls(parsed), UrlData)
    /\ CountAt(domain_tree, <<NameIpv4>>) = Occurrences(RequestUrls(parsed), UrlIpv4)
    /\ CountAt(domain_tree, <<NameIpv6>>) = Occurrences(RequestUrls(parsed), UrlIpv6)
    /\ \A path \in NodePaths(domain_tree) :
         path[1] \in {NameData, NameIpv4, NameIpv6} => Len(path) = 1
    /\ \A name \in TopLevel(domain_tree) :
         (StartsWith(name, <<"i", "p", ":">>) \/ StartsWith(name, <<"d", "a", "t", "a">>))
           => name \in {NameData, NameIpv4, NameIpv6}

\* under the merge policy the data URL and the IPv4 URL of the five URLs
\* have each been counted at their own top-level node
C13_Witness ==
  /\ pc = "built"
  /\ args.merge_tld
  /\ RequestUrls(parsed) = FiveUrls
  /\ CountAt(domain_tree, <<NameData>>) = 1
  /\ CountAt(domain_tree, <<NameIpv4>>) = 1
  /\ Len(domain_tree.children) = 4

\* the URLs of the model that Url::parse accepts
Parseable(url) == url \notin {UrlRelative, UrlEmptyHost}

\* C14: an entry whose URL cannot be parsed, or whose host fails TLD
\* extraction, does not end the aggregation: run() goes on without an error,
\* the tree is the tree of the same list without the entries whose URL cannot
\* be parsed, and a host that fails TLD extraction is counted at invalid:<host>.
C14_BadEntryNeverAborts ==
  Built =>
    /\ failure = NoValue
    /\ PathCounts(domain_tree, <<>>) =
         PathCounts(build_domain_tree(SelectSeq(RequestUrls(parsed), Parseable), EmptyNode,
                                      args.merge_tld,
                                      [i \in 1..Len(RequestUrls(parsed)) |-> 0]), <<>>)
    /\ CountAt(domain_tree, <<NameInvalid>>) = Occurrences(RequestUrls(parsed), UrlEmptyLabel)
    /\ Len(stderr) = Len(RequestUrls(parsed)) - Len(SelectSeq(RequestUrls(parsed), Parseable))

\* a list of a URL that cannot be parsed and a URL whose host fails TLD
\* extraction has been aggregated: one warning, one node
C14_Witness ==
  /\ pc = "built"
  /\ RequestUrls(parsed) = <<UrlRelative, UrlEmptyLabel>>
  /\ Len(stderr) = 1
  /\ PathCounts(domain_tree, <<>>) = {<<<<NameInvalid>>, 1>>}

\* the nodes below a node
RECURSIVE Descendants(_)
Descendants(node) ==
  UNION {{node.children[i].node} \cup Descendants(node.children[i].node) :
         i \in 1..Len(node.children)}

RECURSIVE SumOfCounts(_)
SumOfCounts(children) ==
  IF children = <<>> THEN 0 ELSE Head(children).node.count + SumOfCounts(Tail(children))

\* the entries whose domain-path starts with the path
Through(urls, merge_tld, path) ==
  {i \in 1..Len(urls) :
     /\ ExamplePath(urls[i], merge_tld) # None
     /\ StartsWith(ExamplePath(urls[i], merge_tld).v, path)}

\* C15: the count of every node below the root is the number of entries
\* whose domain-path starts with the path of the node; so the count of a node
\* is at least the sum of the counts of its children, and the top-level
\* counts add up to the number of entries that were not skipped.
C15_CountIsEntriesThroughNode ==
  Built =>
    /\ \A n \in PathCounts(domain_tree, <<>>) :
         n[2] = Cardinality(Through(RequestUrls(parsed), args.merge_tld, n[1]))
    /\ \A node \in Descendants(domain_tree) : node.count >= SumOfCounts(node.children)
    /\ SumOfCounts(domain_tree.children) =
         Cardinality(Through(RequestUrls(parsed), args.merge_tld, <<>>))

\* b.example.com and a.b.example.com have been folded in under the split
\* policy: the node b has count 2 and its one child count 1; one entry of
\* the six was skipped
C15_Witness ==
  /\ pc = "built"
  /\ ~args.merge_tld
  /\ RequestUrls(parsed) = EdgeUrls
  /\ CountAt(domain_tree, <<NameCom, NameExample, NameB>>) = 2
  /\ CountAt(domain_tree, <<NameCom, NameExample, NameB, NameA>>) = 1
  /\ SumOfCounts(domain_tree.children) = 5

(***************************************************************************)
(* Properties of the printed tree.  A printed line is read back: its       *)
(* depth from its leading spaces, its name from what stands before the     *)
(* last " (", its path from the lines above it.                            *)
(***************************************************************************)
LeadingSpaces(line) ==
  CHOOSE k \in 0..Len(line) :
    /\ \A i \in 1..k : line[i] = " "
    /\ k < Len(line) => line[k + 1] # " "

\* a name does not start with a space, and the empty name leaves one space
\* before the count
LineDepth(line) == LeadingSpaces(line) \div 4

LastOpen(line) == CHOOSE i \in 1..Len(line) : line[i] = "(" /\ \A j \in (i + 1)..Len(line) : line[j] # "("

LineName(line) == SubSeq(line, 4 * LineDepth(line) + 1, LastOpen(line) - 2)

\* the last line above line i that is at the given depth
LineAbove(lines, i, depth) ==
  CHOOSE j \in 1..(i - 1) :
    /\ LineDepth(lines[j]) = depth
    /\ \A l \in (j + 1)..(i - 1) : LineDepth(lines[l]) # depth

HasLinesAbove(lines, i) ==
  \A depth \in 0..(LineDepth(lines[i]) - 1) : \E j \in 1..(i - 1) : LineDepth(lines[j]) = depth

\* the path of the node of line i when the lines are in pre-order
LinePath(lines, i) ==
  [d \in 1..(LineDepth(lines[i]) + 1) |->
     IF d = LineDepth(lines[i]) + 1 THEN LineName(lines[i])
     ELSE LineName(lines[LineAbove(lines, i, d - 1)])]

\* C16: the printed tree has one line for every node below the root, each
\* once, and none for the root; the lines are in pre-order (every line stands
\* below the lines of its ancestors, each one level less deep, and a subtree
\* is printed whole before the next sibling); the line of a node at depth d
\* is 4*d spaces, then "<name> (<count>)".
C16_OneLinePerNodeInPreOrder ==
  pc = "returned" =>
    /\ Len(stdout) = Cardinality(PathCounts(domain_tree, <<>>))
    /\ \A i \in 1..Len(stdout) :
         /\ HasLinesAbove(stdout, i)
         /\ LinePath(stdout, i) \in NodePaths(domain_tree)
         /\ stdout[i] = Spaces(4 * (Len(LinePath(stdout, i)) - 1))
                          \o LinePath(stdout, i)[Len(LinePath(stdout, i))]
                          \o <<" ", "(">>
                          \o Decimal(CountAt(domain_tree, LinePath(stdout, i)))
                          \o <<")">>
         /\ \A j \in 1..(i - 1) : LinePath(stdout, j) # LinePath(stdout, i)

\* the tree of the five URLs under the merge policy has been printed by
\* name: eight lines, the fourth example.com (2), the seventh a (1) two
\* levels deep
C16_Witness ==
  /\ pc = "returned"
  /\ args.merge_tld /\ args.sort = "Alpha"
  /\ RequestUrls(parsed) = FiveUrls
  /\ Len(stdout) = 8
  /\ stdout[4] = NameExampleCom \o <<" ", "(", "2", ")">>
  /\ stdout[7] = Spaces(8) \o <<"a", " ", "(", "1", ")">>

RECURSIVE NodeAt(_, _)
NodeAt(node, path) ==
  IF path = <<>> THEN node
  ELSE NodeAt(node.children[ChildIndex(node, Head(path))].node, Tail(path))

ParentPath(path) == SubSeq(path, 1, Len(path) - 1)

Counted(name, count) == name \o <<" ", "(">> \o Decimal(count) \o <<")">>

\* the lines i and j are lines of two children of one node
AreSiblings(lines, i, j) ==
  /\ LineDepth(lines[i]) = LineDepth(lines[j])
  /\ ParentPath(LinePath(lines, i)) = ParentPath(LinePath(lines, j))

\* the place of the node of line i among the children of its parent, in the
\* order the map of the parent iterates
PlaceInMap(lines, i) ==
  ChildIndex(NodeAt(domain_tree, ParentPath(LinePath(lines, i))), LineName(lines[i]))

\* C17: at every level the siblings are printed in the order of the key of
\* the run: by the frequency key the larger count first (the counts 3, 1, 2
\* are printed 3, 2, 1) and siblings of equal count in the order they had
\* before the sort; by the alphabetical key in the order of their names
\* whatever their counts.
C17_SiblingsInKeyOrder ==
  pc = "returned" =>
    /\ \A i \in 1..Len(stdout) : HasLinesAbove(stdout, i)
    /\ \A i \in 1..Len(stdout) : \A j \in (i + 1)..Len(stdout) :
         AreSiblings(stdout, i, j) =>
           IF args.sort = "Alpha"
           THEN StrLess(LineName(stdout[i]), LineName(stdout[j]))
           ELSE \/ CountAt(domain_tree, LinePath(stdout, i)) > CountAt(domain_tree, LinePath(stdout, j))
                \/ /\ CountAt(domain_tree, LinePath(stdout, i)) = CountAt(domain_tree, LinePath(stdout, j))
                   /\ PlaceInMap(stdout, i) < PlaceInMap(stdout, j)
    /\ (RequestUrls(parsed) = SixUrls /\ args.merge_tld) =>
         SelectSeq(stdout, LAMBDA line : LineDepth(line) = 0) =
           IF args.sort = "Alpha"
           THEN <<Counted(NameExampleCoUk, 1), Counted(NameExampleCom, 3), Counted(NameIpv4, 2)>>
           ELSE <<Counted(NameExampleCom, 3), Counted(NameIpv4, 2), Counted(NameExampleCoUk, 1)>>

\* the tree of the five URLs has been printed by frequency: example.com (2)
\* first, then the three top-level nodes of count 1 in the order the map
\* iterated them, which is neither that of their names nor that of insertion
C17_Witness ==
  /\ pc = "returned"
  /\ args.merge_tld /\ args.sort = "Frequency"
  /\ RequestUrls(parsed) = FiveUrls
  /\ [i \in 1..4 |-> domain_tree.children[i].name]
       = <<NameIpv4, NameData, NameExampleCom, NameExampleCoUk>>
  /\ SelectSeq(stdout, LAMBDA line : LineDepth(line) = 0) =
       <<Counted(NameExampleCom, 2), Counted(NameIpv4, 1), Counted(NameData, 1),
         Counted(NameExampleCoUk, 1)>>

(***************************************************************************)
(* Aggregation of a list and of its parts.                                 *)
(***************************************************************************)
\* the tree of a list of URLs, as its node paths and counts
Aggregate(urls, merge_tld) ==
  PathCounts(build_domain_tree(urls, EmptyNode, merge_tld, [i \in 1..Len(urls) |-> 0]), <<>>)

CountIn(counts, path) ==
  IF \E n \in counts : n[1] = path THEN (CHOOSE n \in counts : n[1] = path)[2] ELSE 0

\* the merge step: the counts added up at matching paths
SumAtPaths(a, b) ==
  {<<path, CountIn(a, path) + CountIn(b, path)>> : path \in {n[1] : n \in a \cup b}}

\* the entries at the positions of the set, in their order
SubList(urls, positions) ==
  [k \in 1..Cardinality(positions) |->
     urls[CHOOSE i \in positions : Cardinality({j \in positions : j < i}) = k - 1]]

SplitsAgree(urls, merge_tld, whole) ==
  \A positions \in SUBSET (1..Len(urls)) :
    whole = SumAtPaths(Aggregate(SubList(urls, positions), merge_tld),
                       Aggregate(SubList(urls, (1..Len(urls)) \ positions), merge_tld))

PermutationsAgree(urls, merge_tld, whole) ==
  \A order \in Permutations(1..Len(urls)) :
    whole = Aggregate([i \in 1..Len(urls) |-> urls[order[i]]], merge_tld)

\* C20: the tree of a list is the sum, at matching paths, of the trees of the
\* two parts of any split of the list into two sub-lists, and the lists of the
\* same entries in any other order have the same tree (same nodes, same
\* count at every path).
C20_AggregationIsOrderIndependent ==
  pc = "built" =>
    /\ SplitsAgree(RequestUrls(parsed), args.merge_tld, PathCounts(domain_tree, <<>>))
    /\ Len(RequestUrls(parsed)) <= MaxUrlEntries =>
         PermutationsAgree(RequestUrls(parsed), args.merge_tld, PathCounts(domain_tree, <<>>))

\* the six URLs have been aggregated under the merge policy: example.com
\* has count 3, and 1 and 2 in the trees of the first and the last three
C20_Witness ==
  /\ pc = "built"
  /\ args.merge_tld
  /\ RequestUrls(parsed) = SixUrls
  /\ CountAt(domain_tree, <<NameExampleCom>>) = 3
  /\ CountIn(Aggregate(SubSeq(SixUrls, 1, 3), TRUE), <<NameExampleCom>>) = 1
  /\ CountIn(Aggregate(SubSeq(SixUrls, 4, 6), TRUE), <<NameExampleCom>>) = 2

(***************************************************************************)
(* JsonValue of the json crate, as src/ops/search_for.rs reads it: a       *)
(* string is the sequence of its characters, a number has its value.       *)
(***************************************************************************)
JNumber(n) == [k |-> "number", n |-> n]

\* value[key]: the member, or Null when the value is not an object or has
\* no such member
Index(value, key) ==
  IF value.k = "obj" /\ Has(value.m, key) THEN Lookup(value.m, key) ELSE JNull

\* the characters of the keys of the objects that are written out
KeyChars(key) ==
  CASE key = "name" -> <<"n", "a", "m", "e">>
    [] key = "value" -> <<"v", "a", "l", "u", "e">>
    [] key = "text" -> <<"t", "e", "x", "t">>
    [] key = "size" -> <<"s", "i", "z", "e">>
    [] key = "mimeType" -> <<"m", "i", "m", "e", "T", "y", "p", "e">>

\* a string between quotes, its quotes and backslashes escaped
RECURSIVE Escaped(_)
Escaped(s) ==
  IF s = <<>> THEN <<>>
  ELSE (IF Head(s) \in {"\"", "\\"} THEN <<"\\", Head(s)>> ELSE <<Head(s)>>) \o Escaped(Tail(s))

Quoted(s) == <<"\"">> \o Escaped(s) \o <<"\"">>

\* JsonValue::dump: the value as JSON text without spaces
RECURSIVE dump(_)
dump(value) ==
  CASE value.k = "null" -> <<"n", "u", "l", "l">>
    [] value.k = "number" -> Decimal(value.n)
    [] value.k = "str" -> Quoted(value.s)
    [] value.k = "arr" ->
         <<"[">> \o Join([i \in 1..Len(value.a) |-> dump(value.a[i])], <<",">>) \o <<"]">>
    [] value.k = "obj" ->
         <<"{">> \o Join([i \in 1..Len(value.m) |->
                            Quoted(KeyChars(value.m[i].key)) \o <<":">> \o dump(value.m[i].val)],
                         <<",">>) \o <<"}">>

\* Display for JsonValue: a string as it is, any other value as dump writes it
\* the characters of a string: a string that the time filter reads too holds
\* them beside the string it compares
StrChars(value) == IF "chars" \in DOMAIN value THEN value.chars ELSE value.s

to_string(value) == IF value.k = "str" THEN StrChars(value) ELSE dump(value)

(***************************************************************************)
(* search_for of src/ops/search_for.rs.                                    *)
(***************************************************************************)
FieldText(name, value) == [name |-> name, text |-> to_string(value)]

\* the fifteen strings of an entry, in the order the code tests them
FieldTexts(entry, request, response) ==
  << FieldText("time", Index(entry, "startedDateTime")),
     FieldText("request_method", Index(request, "method")),
     FieldText("request_url", Index(request, "url")),
     FieldText("request_http_version", Index(request, "httpVersion")),
     FieldText("request_headers", Index(request, "headers")),
     FieldText("request_cookies", Index(request, "cookies")),
     FieldText("request_query_string", Index(request, "queryString")),
     FieldText("request_post_data", Index(request, "postData")),
     FieldText("response_status", Index(response, "status")),
     FieldText("response_status_text", Index(response, "statusText")),
     FieldText("response_http_version", Index(response, "httpVersion")),
     FieldText("response_headers", Index(response, "headers")),
     FieldText("response_cookies", Index(response, "cookies")),
     FieldText("response_content", Index(response, "content")),
     FieldText("response_redirect_url", Index(response, "redirectURL")) >>

\* in_fields of a chain that stops at the first string containing search_str
InFieldsFirstOnly(texts, search_str) ==
  IF \E i \in 1..Len(texts) : contains(texts[i].text, search_str)
  THEN <<texts[CHOOSE i \in 1..Len(texts) :
                 /\ contains(texts[i].text, search_str)
                 /\ \A j \in 1..(i - 1) : ~contains(texts[j].text, search_str)].name>>
  ELSE <<>>

\* in_fields: the name of each string that contains search_str is pushed
InFieldsOf(texts, search_str) ==
  [i \in 1..Len(SelectSeq(texts, LAMBDA f : contains(f.text, search_str))) |->
     SelectSeq(texts, LAMBDA f : contains(f.text, search_str))[i].name]

InFields(entry, search_str) ==
  InFieldsOf(FieldTexts(entry, Index(entry, "request"), Index(entry, "response")), search_str)

SearchResult(request_num, entry, in_fields) ==
  [ request_num |-> request_num,
    time |-> to_string(Index(entry, "startedDateTime")),
    url |-> to_string(Index(Index(entry, "request"), "url")),
    method |-> to_string(Index(Index(entry, "request"), "method")),
    in_fields |-> in_fields,
    request_json |-> Index(entry, "request") ]

\* the result numbered as enumerate() numbers the entries, from 0
ResultOfZeroBased(i, entry, in_fields) ==
  IF in_fields # <<>> THEN <<SearchResult(i, entry, in_fields)>> ELSE <<>>

\* the result of request i, the first being request 0
ResultOf(i, entry, in_fields) ==
  IF in_fields # <<>> THEN <<SearchResult(i + 1, entry, in_fields)>> ELSE <<>>

\* for (i, entry) in entries.iter().enumerate()
RECURSIVE SearchEntries(_, _, _)
SearchEntries(entries, i, search_str) ==
  IF i = Len(entries) THEN <<>>
  ELSE ResultOf(i, entries[i + 1], InFields(entries[i + 1], search_str))
       \o SearchEntries(entries, i + 1, search_str)

\* search_for: Err stands for the panic on a value without an array of entries
search_for(value, search_str) ==
  IF Index(Index(value, "log"), "entries").k = "arr"
  THEN Ok(SearchEntries(Index(Index(value, "log"), "entries").a, 0, search_str))
  ELSE Err("Invalid HAR file.")

(***************************************************************************)
(* BASE64_STANDARD_NO_PAD.encode of the base64 crate.                      *)
(***************************************************************************)
\* A-Z, a-z, 0-9, + and /
Base64Alphabet == SubSeq(Below96, 34, 59) \o SubSeq(Above96, 1, 26) \o Digits \o <<"+", "/">>

Sextet(n) == Base64Alphabet[n + 1]

\* the encoding with "=" added up to a multiple of four characters
RECURSIVE encodePadded(_)
encodePadded(bytes) ==
  IF bytes = <<>> THEN <<>>
  ELSE IF Len(bytes) = 1
  THEN <<Sextet(bytes[1] \div 4), Sextet((bytes[1] % 4) * 16), "=", "=">>
  ELSE IF Len(bytes) = 2
  THEN <<Sextet(bytes[1] \div 4), Sextet((bytes[1] % 4) * 16 + bytes[2] \div 16),
         Sextet((bytes[2] % 16) * 4), "=">>
  ELSE <<Sextet(bytes[1] \div 4), Sextet((bytes[1] % 4) * 16 + bytes[2] \div 16),
         Sextet((bytes[2] % 16) * 4 + bytes[3] \div 64), Sextet(bytes[3] % 64)>>
       \o encodePadded(SubSeq(bytes, 4, Len(bytes)))

\* three bytes give four characters, one byte two, two bytes three
RECURSIVE encode(_)
encode(bytes) ==
  IF bytes = <<>> THEN <<>>
  ELSE IF Len(bytes) = 1
  THEN <<Sextet(bytes[1] \div 4), Sextet((bytes[1] % 4) * 16)>>
  ELSE IF Len(bytes) = 2
  THEN <<Sextet(bytes[1] \div 4), Sextet((bytes[1] % 4) * 16 + bytes[2] \div 16),
         Sextet((bytes[2] % 16) * 4)>>
  ELSE <<Sextet(bytes[1] \div 4), Sextet((bytes[1] % 4) * 16 + bytes[2] \div 16),
         Sextet((bytes[2] % 16) * 4 + bytes[3] \div 64), Sextet(bytes[3] % 64)>>
       \o encode(SubSeq(bytes, 4, Len(bytes)))

\* String::as_bytes
Bytes(s) == [i \in 1..Len(s) |-> Code(s[i])]

(***************************************************************************)
(* The search-for command alone (specification SpecSearch): run() from the *)
(* filtered record set on.                                                 *)
(***************************************************************************)
\* the payload an entry holds at a place, or nothing
PayloadAt(payloads, place) == IF place \in DOMAIN payloads THEN payloads[place] ELSE <<>>

NameValue(name, value) == JObj(<<Member("name", JStr(name)), Member("value", JStr(value))>>)

\* a list of name and value pairs: empty, or the one pair of the payload
PairsOf(payloads, place) ==
  IF place \in DOMAIN payloads THEN JArr(<<NameValue(<<"p">>, payloads[place])>>) ELSE JArr(<<>>)

\* an entry of a log: GET https://example.com/y answered 200 OK (404 when the
\* status is a place), with the payloads in their places; it has post data
\* only when that is a place
SearchRequest(payloads) ==
  JObj(<< Member("method", JStr(<<"G", "E", "T">> \o PayloadAt(payloads, "request_method"))),
          Member("url", JStr(UrlDomain \o PayloadAt(payloads, "request_url"))),
          Member("httpVersion", JStr(<<"H", "T", "T", "P", "/", "1", ".", "1">> \o PayloadAt(payloads, "request_http_version"))),
          Member("headers", JArr(<<NameValue(<<"h">>, <<"v">> \o PayloadAt(payloads, "request_headers"))>>)),
          Member("cookies", PairsOf(payloads, "request_cookies")),
          Member("queryString", PairsOf(payloads, "request_query_string")) >>
       \o (IF "request_post_data" \in DOMAIN payloads
           THEN <<Member("postData", JObj(<<Member("mimeType", JStr(<<"m">>)),
                                            Member("text", JStr(payloads["request_post_data"]))>>))>>
           ELSE <<>>))

SearchResponse(payloads) ==
  JObj(<< Member("status", JNumber(IF "response_status" \in DOMAIN payloads THEN 404 ELSE 200)),
          Member("statusText", JStr(<<"O", "K">> \o PayloadAt(payloads, "response_status_text"))),
          Member("httpVersion", JStr(<<"H", "T", "T", "P", "/", "1", ".", "1">> \o PayloadAt(payloads, "response_http_version"))),
          Member("headers", JArr(<<NameValue(<<"h">>, <<"v">> \o PayloadAt(payloads, "response_headers"))>>)),
          Member("cookies", PairsOf(payloads, "response_cookies")),
          Member("content", JObj(<<Member("size", JNumber(0)),
                                   Member("text", JStr(PayloadAt(payloads, "response_content")))>>)),
          Member("redirectURL", JStr(PayloadAt(payloads, "response_redirect_url"))) >>)

SearchEntry(payloads) ==
  JObj(<< Member("startedDateTime", JStr(<<"T", "0">> \o PayloadAt(payloads, "time"))),
          Member("request", SearchRequest(payloads)),
          Member("response", SearchResponse(payloads)) >>)

PayloadAb == <<"a", "b">>
\* BASE64_STANDARD_NO_PAD of "ab", as a log would carry it
PayloadAbEncoded == <<"Y", "W", "I">>

NoPayload == [place \in {} |-> <<>>]

EntryPlain == SearchEntry(NoPayload)
EntryResponseHeader == SearchEntry("response_headers" :> PayloadAb)
EntryRequestUrl == SearchEntry("request_url" :> PayloadAb)
EntryEncodedContent == SearchEntry("response_content" :> PayloadAbEncoded)
EntryBoth == SearchEntry(("request_url" :> PayloadAb) @@ ("response_headers" :> PayloadAbEncoded))
EntryNotFound == SearchEntry("response_status" :> PayloadAb)

SearchEntryPool ==
  {EntryPlain, EntryResponseHeader, EntryRequestUrl, EntryEncodedContent, EntryBoth, EntryNotFound}

\* the names search_for gives the fields
FieldOrder ==
  << "time", "request_method", "request_url", "request_http_version", "request_headers",
     "request_cookies", "request_query_string", "request_post_data", "response_status",
     "response_status_text", "response_http_version", "response_headers", "response_cookies",
     "response_content", "response_redirect_url" >>

\* one entry for each field, holding "ab" there and nowhere else
EveryPlace == [i \in 1..Len(FieldOrder) |-> SearchEntry(FieldOrder[i] :> PayloadAb)]

SearchLists == SeqsUpTo(SearchEntryPool, MaxSearchEntries) \cup {EveryPlace}

\* the strings searched for: ab, zz, the empty string, 1, 404 and null
Queries ==
  { PayloadAb, <<"z", "z">>, <<>>, <<"1">>, <<"4", "0", "4">>, <<"n", "u", "l", "l">> }

InitSearch ==
  /\ pc = "filtered"
  /\ args \in [command : {"SearchFor"}, string : Queries]
  /\ world = NoValue
  /\ contents \in {Text("json", <<>>, <<>>, LogOf(JArr(entries))) : entries \in SearchLists}
  /\ parsed = contents.raw
  /\ failure = NoValue
  /\ encoded = NoValue
  /\ domain_tree = NoValue
  /\ stdout = <<>>
  /\ stderr = <<>>
  /\ exitCode = "running"
  /\ calls = <<>>

\* println!("<label> {}:", result.request_num); println!("Time: {}\nURL: {}
\* \nMethod: {}\nIn fields: {:?}\n", ..)
PrintedResult(label, result) ==
  [ label |-> label, request_num |-> result.request_num, time |-> result.time,
    url |-> result.url, method |-> result.method, in_fields |-> result.in_fields ]

PrintedResults(label, matches) == [i \in 1..Len(matches) |-> PrintedResult(label, matches[i])]

SearchCall(value, search_str) == [function |-> "search_for", value |-> value, search_str |-> search_str]

\* a call of search_for and the loop over its results; its panic ends the
\* program
SearchAndPrint(search_str, label, matches) ==
  /\ calls' = Append(calls, SearchCall(parsed, search_str))
  /\ stdout' = IF matches.ok THEN stdout \o PrintedResults(label, matches.v) ELSE stdout
  /\ stderr' = IF matches.ok THEN stderr ELSE Append(stderr, [label |-> "panicked", error |-> matches.msg])
  /\ exitCode' = IF matches.ok THEN exitCode ELSE "PANIC"

\* let matches = search_for::search_for(&parsed, &search_args.string); for
\* result in matches { .. }
SearchLiteral ==
  /\ pc = "filtered"
  /\ args.command = "SearchFor"
  /\ SearchAndPrint(args.string, "Found in request", search_for(parsed, args.string))
  /\ pc' = IF search_for(parsed, args.string).ok THEN "searched" ELSE "exited"
  /\ UNCHANGED <<args, world, contents, parsed, failure, encoded, domain_tree>>

\* let b64_search_string = BASE64_STANDARD_NO_PAD.encode(&search_args.string);
\* let matches_b64 = search_for::search_for(&parsed, &b64_search_string); for
\* result in matches_b64 { .. }
SearchEncoded ==
  /\ pc = "searched"
  /\ SearchAndPrint(encode(Bytes(args.string)), "Found base64 encoded in request",
                    search_for(parsed, encode(Bytes(args.string))))
  /\ IF search_for(parsed, encode(Bytes(args.string))).ok
     THEN Return(NoValue)
     ELSE pc' = "exited" /\ failure' = failure
  /\ UNCHANGED <<args, world, contents, parsed, encoded, domain_tree>>

NextSearch == SearchLiteral \/ SearchEncoded

SpecSearch == InitSearch /\ [][NextSearch]_vars

(***************************************************************************)
(* Properties of the search.                                               *)
(***************************************************************************)
\* the entry list of a record set
LogEntries(value) == Index(Index(value, "log"), "entries").a

\* the value of a named field of an entry
FieldValue(entry, name) ==
  CASE name = "time" -> Index(entry, "startedDateTime")
    [] name = "request_method" -> Index(Index(entry, "request"), "method")
    [] name = "request_url" -> Index(Index(entry, "request"), "url")
    [] name = "request_http_version" -> Index(Index(entry, "request"), "httpVersion")
    [] name = "request_headers" -> Index(Index(entry, "request"), "headers")
    [] name = "request_cookies" -> Index(Index(entry, "request"), "cookies")
    [] name = "request_query_string" -> Index(Index(entry, "request"), "queryString")
    [] name = "request_post_data" -> Index(Index(entry, "request"), "postData")
    [] name = "response_status" -> Index(Index(entry, "response"), "status")
    [] name = "response_status_text" -> Index(Index(entry, "response"), "statusText")
    [] name = "response_http_version" -> Index(Index(entry, "response"), "httpVersion")
    [] name = "response_headers" -> Index(Index(entry, "response"), "headers")
    [] name = "response_cookies" -> Index(Index(entry, "response"), "cookies")
    [] name = "response_content" -> Index(Index(entry, "response"), "content")
    [] name = "response_redirect_url" -> Index(Index(entry, "response"), "redirectURL")

\* pat lies between two cuts of text
IsSubstring(pat, text) ==
  \E a \in 0..Len(text) : \E b \in a..Len(text) : SubSeq(text, a + 1, b) = pat

MatchedFields(entry, query) ==
  {name \in Range(FieldOrder) : IsSubstring(query, to_string(FieldValue(entry, name)))}

\* the places (entry, field) of a list where the query is found
MatchedPlaces(entries, query) ==
  {place \in (1..Len(entries)) \X Range(FieldOrder) :
     place[2] \in MatchedFields(entries[place[1]], query)}

PlaceInOrder(name) == CHOOSE i \in 1..Len(FieldOrder) : FieldOrder[i] = name

\* the names are names of fields, each once, in the fixed order
InFixedOrder(in_fields) ==
  /\ \A i \in 1..Len(in_fields) : in_fields[i] \in Range(FieldOrder)
  /\ \A i, j \in 1..Len(in_fields) :
       i < j => PlaceInOrder(in_fields[i]) < PlaceInOrder(in_fields[j])

\* the printed results are those of a search of the entries for the query
ResultsOfSearch(printed, entries, query) ==
  /\ \A i \in 1..Len(entries) :
       (MatchedFields(entries[i], query) # {})
         <=> (\E j \in 1..Len(printed) : printed[j].request_num = i)
  /\ \A j \in 1..Len(printed) :
       /\ printed[j].request_num \in 1..Len(entries)
       /\ InFixedOrder(printed[j].in_fields)
       /\ Range(printed[j].in_fields) = MatchedFields(entries[printed[j].request_num], query)
  /\ (\E i \in 1..Len(entries) : MatchedPlaces(entries, query) = {<<i, "response_headers">>})
       => (Len(printed) = 1 /\ printed[1].in_fields = <<"response_headers">>)
  /\ (MatchedPlaces(entries, query) = {}) => (printed = <<>>)

\* C18: after the literal pass, an entry has a printed result if and only if
\* the query is a substring of the text of one of its fifteen fields; the
\* result's in_fields are exactly the fields that matched, each once, in the
\* fixed order; a query found only in one entry's response headers gives the
\* one result with in_fields = ["response_headers"], a query found nowhere
\* gives no result.
C18_ResultIffSomeFieldMatches ==
  pc = "searched" => ResultsOfSearch(stdout, LogEntries(parsed), args.string)

\* "ab" is found only in the response headers of the second of two entries
C18_Witness ==
  /\ pc = "searched"
  /\ args.string = PayloadAb
  /\ LogEntries(parsed) = <<EntryPlain, EntryResponseHeader>>
  /\ Len(stdout) = 1
  /\ stdout[1].request_num = 2
  /\ stdout[1].in_fields = <<"response_headers">>

\* standard base64 without padding of the strings searched for
Base64Of(query) ==
  CASE query = <<"a", "b">> -> <<"Y", "W", "I">>
    [] query = <<"z", "z">> -> <<"e", "n", "o">>
    [] query = <<>> -> <<>>
    [] query = <<"1">> -> <<"M", "Q">>
    [] query = <<"4", "0", "4">> -> <<"N", "D", "A", "0">>
    [] query = <<"n", "u", "l", "l">> -> <<"b", "n", "V", "s", "b", "A">>
    [] OTHER -> <<"=">>

LiteralLabel == "Found in request"
EncodedLabel == "Found base64 encoded in request"

WithLabel(printed, label) == SelectSeq(printed, LAMBDA line : line.label = label)

\* every result of the literal pass stands before every result of the
\* encoded pass
LiteralBeforeEncoded(printed) ==
  \A i, j \in 1..Len(printed) :
    (printed[i].label = EncodedLabel /\ printed[j].label = LiteralLabel) => j < i

\* the entry's number is printed under the label
ReportedUnder(printed, label, i) ==
  \E j \in 1..Len(printed) : printed[j].label = label /\ printed[j].request_num = i

\* C19: one search command calls search_for exactly twice on the record set
\* as it was read: first with the literal query, then with its standard
\* base64 encoding without padding; the results of the literal pass are all
\* printed before those of the encoded pass, the encoded pass prints what a
\* search for the encoded query alone gives, and an entry found by both
\* passes is printed by both.
C19_TwoPassesLiteralThenEncoded ==
  /\ pc = "searched" =>
       /\ calls = <<SearchCall(contents.raw, args.string)>>
       /\ WithLabel(stdout, EncodedLabel) = <<>>
  /\ pc = "returned" =>
       /\ calls = <<SearchCall(contents.raw, args.string),
                    SearchCall(contents.raw, Base64Of(args.string))>>
       /\ parsed = contents.raw
       /\ \A i \in 1..Len(stdout) : stdout[i].label \in {LiteralLabel, EncodedLabel}
       /\ LiteralBeforeEncoded(stdout)
       /\ ResultsOfSearch(WithLabel(stdout, LiteralLabel), LogEntries(parsed), args.string)
       /\ ResultsOfSearch(WithLabel(stdout, EncodedLabel), LogEntries(parsed),
                          Base64Of(args.string))
       /\ \A i \in 1..Len(LogEntries(parsed)) :
            (/\ MatchedFields(LogEntries(parsed)[i], args.string) # {}
             /\ MatchedFields(LogEntries(parsed)[i], Base64Of(args.string)) # {})
              => (ReportedUnder(stdout, LiteralLabel, i) /\ ReportedUnder(stdout, EncodedLabel, i))

\* the entry with "ab" in its URL and "YWI" in a response header is printed
\* by both passes of a search for "ab", the literal pass first
C19_Witness ==
  /\ pc = "returned"
  /\ args.string = PayloadAb
  /\ LogEntries(parsed) = <<EntryPlain, EntryBoth>>
  /\ Len(stdout) = 2
  /\ stdout[1] = [ label |-> LiteralLabel, request_num |-> 2, time |-> <<"T", "0">>,
                   url |-> UrlDomain \o PayloadAb, method |-> <<"G", "E", "T">>,
                   in_fields |-> <<"request_url">> ]
  /\ stdout[2] = [ label |-> EncodedLabel, request_num |-> 2, time |-> <<"T", "0">>,
                   url |-> UrlDomain \o PayloadAb, method |-> <<"G", "E", "T">>,
                   in_fields |-> <<"response_headers">> ]

(***************************************************************************)
(* The time filter and the search together (specification                  *)
(* SpecFilterSearch): run() from the record set on, for the search-for     *)
(* command.                                                                *)
(***************************************************************************)
\* the characters of the start times of the entries
CharsOf(str) ==
  CASE str = "2024-01-01T01:00:00Z" ->
         <<"2", "0", "2", "4", "-", "0", "1", "-", "0", "1", "T", "0", "1", ":", "0", "0", ":", "0", "0", "Z">>
    [] str = "2024-01-01T02:00:00Z" ->
         <<"2", "0", "2", "4", "-", "0", "1", "-", "0", "1", "T", "0", "2", ":", "0", "0", ":", "0", "0", "Z">>
    [] str = "2024-01-01T03:00:00+01:00" ->
         <<"2", "0", "2", "4", "-", "0", "1", "-", "0", "1", "T", "0", "3", ":", "0", "0", ":", "0", "0", "+", "0", "1", ":", "0", "0">>
    [] str = "yesterday" ->
         <<"y", "e", "s", "t", "e", "r", "d", "a", "y">>

\* a start time: the string the filter parses and its characters, which the
\* search reads
TimeStr(str) == [k |-> "str", s |-> str, chars |-> CharsOf(str)]

TimedEntry(str, payloads) ==
  JObj(<< Member("startedDateTime", TimeStr(str)),
          Member("request", SearchRequest(payloads)),
          Member("response", SearchResponse(payloads)) >>)

\* entries at 01:00, 02:00 (twice, once written with an offset) and at no
\* time the filter can read; "ab" is in the URL of three of them
TimedEntryPool ==
  { TimedEntry("2024-01-01T01:00:00Z", "request_url" :> PayloadAb),
    TimedEntry("2024-01-01T02:00:00Z", "request_url" :> PayloadAb),
    TimedEntry("2024-01-01T02:00:00Z", NoPayload),
    TimedEntry("2024-01-01T03:00:00+01:00", "response_content" :> PayloadAbEncoded),
    TimedEntry("yesterday", "request_url" :> PayloadAb) }

TimedLists == SeqsUpTo(TimedEntryPool, MaxSearchEntries)

\* the strings searched for: ab, 02:00 and zz
TimedQueries == { PayloadAb, <<"0", "2", ":", "0", "0">>, <<"z", "z">> }

InitFilterSearch ==
  /\ pc = "parsed"
  /\ args \in [command : {"SearchFor"}, string : TimedQueries,
               before : {None, Some(2)}, after : {None, Some(2)}]
  /\ world = NoValue
  /\ contents \in {Text("json", <<>>, <<>>, LogOf(JArr(entries))) : entries \in TimedLists}
  /\ parsed = contents.raw
  /\ failure = NoValue
  /\ encoded = NoValue
  /\ domain_tree = NoValue
  /\ stdout = <<>>
  /\ stderr = <<>>
  /\ exitCode = "running"
  /\ calls = <<>>

NextFilterSearch == FilterBefore \/ FilterAfter \/ SearchLiteral \/ SearchEncoded

SpecFilterSearch == InitFilterSearch /\ [][NextFilterSearch]_vars

\* the printed results are in the order of the entries, numbered by their
\* places in the list, each with the time, URL and method of its entry
InEntryOrder(printed, entries) ==
  /\ \A j \in 1..Len(printed) :
       /\ printed[j].request_num \in 1..Len(entries)
       /\ printed[j].time = Get(entries[printed[j].request_num], "startedDateTime").chars
       /\ printed[j].url = Get(Get(entries[printed[j].request_num], "request"), "url").s
       /\ printed[j].method = Get(Get(entries[printed[j].request_num], "request"), "method").s
  /\ \A j, k \in 1..Len(printed) :
       j < k => printed[j].request_num < printed[k].request_num

\* C21: the results of one search call are in entry order: their request_num
\* are strictly increasing and lie in 1..n, n being the length of the list
\* the time filter left (so a number is a place in the filtered list, not in
\* the document), no entry has two results, and a result's time, url and
\* method are those of the entry at place request_num of the filtered list.
C21_ResultsInFilteredEntryOrder ==
  pc \in {"searched", "returned"} =>
    /\ InEntryOrder(WithLabel(stdout, LiteralLabel),
                    Kept(LogEntries(contents.raw), args.before, args.after))
    /\ InEntryOrder(WithLabel(stdout, EncodedLabel),
                    Kept(LogEntries(contents.raw), args.before, args.after))

\* the filter dropped the first of two entries with "ab" in their URLs: the
\* one result has number 1 and the time of the document's second entry
C21_Witness ==
  /\ pc = "searched"
  /\ args.string = PayloadAb
  /\ args.after = Some(2)
  /\ LogEntries(contents.raw) =
       << TimedEntry("2024-01-01T01:00:00Z", "request_url" :> PayloadAb),
          TimedEntry("2024-01-01T02:00:00Z", "request_url" :> PayloadAb) >>
  /\ Len(LogEntries(parsed)) = 1
  /\ Len(stdout) = 1
  /\ stdout[1].request_num = 1
  /\ stdout[1].time = CharsOf("2024-01-01T02:00:00Z")

====
